---- MODULE Spec2Model ----
(***************************************************************************)
(* The natural-language query parser and the response formatters of the    *)
(* MonarchMoney MCP server.                                                *)
(*                                                                         *)
(* A JavaScript string is a sequence of one-character strings; an object   *)
(* is a function from its keys (strings) to its values; a regular          *)
(* expression is translated into the scan its backtracking search performs.*)
(***************************************************************************)
EXTENDS Integers, Sequences, FiniteSets, TLC

VARIABLES
    query,          \* the text handed to parseNaturalLanguageQuery
    existingArgs,   \* the pre-existing filter object handed with it
    clock,          \* what `new Date()` answers during the call
    done,           \* the calls that have returned
    enhancedArgs,   \* the object returned for query
    upperArgs,      \* the object returned for query.toUpperCase()
    serverArgs,     \* the object the server's own parser returned for query
    transactions,   \* the transaction records handed to the formatters
    accounts,       \* the account records handed to the formatters
    formatted,      \* the text returned, per formatting call made so far
    sizing,         \* the arguments of calculateOptimalVerbosity
    optimal,        \* the verbosity level it returned for them
    categories,     \* the category records handed to formatCategories
    budgets,        \* the budget records handed to formatBudgets
    toolCall,       \* the tool name and the arguments of the tools/call request
    adapted,        \* whether adaptArguments has returned
    sdkArguments,   \* the parameter list it returned for the SDK method
    isAuthenticated, \* the server's flag
    configValid,    \* whether process.env holds valid credentials
    requests,       \* the requests of the client, each with the place its handler has reached
    sdkLog,         \* the calls of SDK methods and their returns, in order
    heap,           \* the objects in memory, by reference
    handed,         \* the function called, and what the caller's object held then
    returned        \* the reference of the object the call built, 0 while it has not returned

parserVars == <<query, existingArgs, clock, done, enhancedArgs, upperArgs, serverArgs>>

formatterVars == <<transactions, accounts, formatted>>

sizingVars == <<sizing, optimal>>

catalogVars == <<categories, budgets>>

CatalogIdle ==
    /\ categories = <<>>
    /\ budgets = <<>>

adapterVars == <<toolCall, adapted, sdkArguments>>

AdapterIdle ==
    /\ toolCall = [k \in {} |-> 0]
    /\ adapted = FALSE
    /\ sdkArguments = <<>>

sessionVars == <<isAuthenticated, configValid, requests, sdkLog>>

SessionIdle ==
    /\ isAuthenticated = FALSE
    /\ configValid = FALSE
    /\ requests = <<>>
    /\ sdkLog = <<>>

heapVars == <<heap, handed, returned>>

HeapIdle ==
    /\ heap = <<>>
    /\ handed = [k \in {} |-> 0]
    /\ returned = 0

vars == <<parserVars, formatterVars, sizingVars, catalogVars, adapterVars, sessionVars, heapVars>>

\* the parts of the state a component does not touch, and their values while
\* the other components are not in use
ParserIdle ==
    /\ query = <<>>
    /\ existingArgs = [k \in {} |-> 0]
    /\ done = {}
    /\ enhancedArgs = [k \in {} |-> 0]
    /\ upperArgs = [k \in {} |-> 0]
    /\ serverArgs = [k \in {} |-> 0]

FormatterIdle ==
    /\ transactions = <<>>
    /\ accounts = <<>>
    /\ formatted = [k \in {} |-> 0]

SizingIdle ==
    /\ sizing = [k \in {} |-> 0]
    /\ optimal = <<>>

besideParser == <<formatterVars, sizingVars, catalogVars, adapterVars, sessionVars, heapVars>>

BesideParserIdle == FormatterIdle /\ SizingIdle /\ CatalogIdle /\ AdapterIdle /\ SessionIdle /\ HeapIdle

besideFormatter == <<parserVars, sizingVars, catalogVars, adapterVars, sessionVars, heapVars>>

BesideFormatterIdle == ParserIdle /\ SizingIdle /\ CatalogIdle /\ AdapterIdle /\ SessionIdle /\ HeapIdle

besideSizing == <<parserVars, formatterVars, catalogVars, adapterVars, sessionVars, heapVars>>

BesideSizingIdle == ParserIdle /\ FormatterIdle /\ CatalogIdle /\ AdapterIdle /\ SessionIdle /\ HeapIdle

BesideParserAndFormatterIdle == SizingIdle /\ CatalogIdle /\ AdapterIdle /\ SessionIdle /\ HeapIdle

besideHeap == <<parserVars, formatterVars, sizingVars, catalogVars, adapterVars, sessionVars>>

BesideHeapIdle == ParserIdle /\ FormatterIdle /\ SizingIdle /\ CatalogIdle /\ AdapterIdle /\ SessionIdle

besideSession == <<parserVars, formatterVars, sizingVars, catalogVars, adapterVars, heapVars>>

BesideSessionIdle == ParserIdle /\ FormatterIdle /\ SizingIdle /\ CatalogIdle /\ AdapterIdle /\ HeapIdle

besideAdapter == <<parserVars, formatterVars, sizingVars, catalogVars, sessionVars, heapVars>>

BesideAdapterIdle == ParserIdle /\ FormatterIdle /\ SizingIdle /\ CatalogIdle /\ SessionIdle /\ HeapIdle

BesideFormatterAndCatalogIdle == ParserIdle /\ SizingIdle /\ AdapterIdle /\ SessionIdle /\ HeapIdle

besideCatalog == <<parserVars, formatterVars, sizingVars, adapterVars, sessionVars, heapVars>>

BesideCatalogIdle == ParserIdle /\ FormatterIdle /\ SizingIdle /\ AdapterIdle /\ SessionIdle /\ HeapIdle

----------------------------------------------------------------------------
(* Characters and character classes *)

LowerLetters ==
    <<"a","b","c","d","e","f","g","h","i","j","k","l","m",
      "n","o","p","q","r","s","t","u","v","w","x","y","z">>

UpperLetters ==
    <<"A","B","C","D","E","F","G","H","I","J","K","L","M",
      "N","O","P","Q","R","S","T","U","V","W","X","Y","Z">>

DecimalDigits == <<"0","1","2","3","4","5","6","7","8","9">>

\* U+0131 LATIN SMALL LETTER DOTLESS I: a lowercase letter outside ASCII
\* whose uppercase form is the ASCII capital I.
DotlessI == "U+0131"

Range(f) == {f[i] : i \in DOMAIN f}

\* \s
Whitespace == {" ", "\t", "\n"}

\* \d
Digit == Range(DecimalDigits)

\* [a-zA-Z]
Alpha == Range(LowerLetters) \cup Range(UpperLetters)

\* \w
WordChar == Alpha \cup Digit \cup {"_"}

\* [a-zA-Z0-9\s&]
MerchantChar == Alpha \cup Digit \cup Whitespace \cup {"&"}

IndexIn(seq, c) == CHOOSE i \in DOMAIN seq : seq[i] = c

toLowerCaseChar(c) ==
    IF c \in Range(UpperLetters) THEN LowerLetters[IndexIn(UpperLetters, c)]
    ELSE c

toUpperCaseChar(c) ==
    IF c \in Range(LowerLetters) THEN UpperLetters[IndexIn(LowerLetters, c)]
    ELSE IF c = DotlessI THEN "I"
    ELSE c

RECURSIVE toLowerCase(_)
toLowerCase(s) ==
    IF s = <<>> THEN <<>>
    ELSE <<toLowerCaseChar(Head(s))>> \o toLowerCase(Tail(s))

RECURSIVE toUpperCase(_)
toUpperCase(s) ==
    IF s = <<>> THEN <<>>
    ELSE <<toUpperCaseChar(Head(s))>> \o toUpperCase(Tail(s))

----------------------------------------------------------------------------
(* String and regular-expression primitives *)

Min(S) == CHOOSE x \in S : \A y \in S : x <= y

\* the literal w stands at position i of s
LitAt(s, i, w) ==
    /\ i >= 1
    /\ i + Len(w) - 1 <= Len(s)
    /\ \A k \in 1..Len(w) : s[i + k - 1] = w[k]

\* String.prototype.includes
includes(s, w) == \E i \in 1..(Len(s) + 1) : LitAt(s, i, w)

\* the last position of the longest run of Class characters starting at i
\* (i - 1 when the run is empty): what a greedy Class* consumes
RECURSIVE SpanEnd(_, _, _)
SpanEnd(s, i, Class) ==
    IF i \in 1..Len(s) /\ s[i] \in Class THEN SpanEnd(s, i + 1, Class) ELSE i - 1

\* \b between positions i - 1 and i
WordBoundary(s, i) ==
    LET before == i - 1 \in 1..Len(s) /\ s[i - 1] \in WordChar
        after  == i \in 1..Len(s) /\ s[i] \in WordChar
    IN  before # after

\* the first of the alternatives `words` (a sequence, in the order the regex
\* lists them) that stands at i with then[end] true for the position
\* after it; 0 when none does
FirstAlternative(s, i, words, then) ==
    LET ok == {n \in DOMAIN words :
                  LitAt(s, i, words[n]) /\ then[i + Len(words[n])]}
    IN  IF ok = {} THEN 0 ELSE Min(ok)

\* a regex without the g flag reports its leftmost match: matchAt[i] is the
\* match attempted at start position i, NoMatch when it fails
NoMatch == <<>>

\* the start positions a match of s is attempted at, the end included
Positions(s) == 1..(Len(s) + 1)

Leftmost(matchAt) ==
    IF \E i \in DOMAIN matchAt : matchAt[i] # NoMatch
    THEN matchAt[CHOOSE i \in DOMAIN matchAt :
                     /\ matchAt[i] # NoMatch
                     /\ \A j \in 1..(i - 1) : matchAt[j] = NoMatch]
    ELSE NoMatch

\* String.prototype.trim
trim(s) ==
    LET keep == {i \in 1..Len(s) : s[i] \notin Whitespace}
    IN  IF keep = {} THEN <<>>
        ELSE SubSeq(s, Min(keep), CHOOSE j \in keep : \A k \in keep : k <= j)

DigitValue(c) == IndexIn(DecimalDigits, c) - 1

\* parseInt of a non-empty string of decimal digits
RECURSIVE parseInt(_)
parseInt(ds) ==
    IF Len(ds) = 0 THEN 0
    ELSE 10 * parseInt(SubSeq(ds, 1, Len(ds) - 1)) + DigitValue(ds[Len(ds)])

----------------------------------------------------------------------------
(* Objects *)

EmptyObject == [k \in {} |-> 0]

has(obj, key) == key \in DOMAIN obj

\* obj[key] = value
Put(obj, key, value) ==
    [k \in DOMAIN obj \cup {key} |-> IF k = key THEN value ELSE obj[k]]

\* \s+ at position e: the position after it, 0 when no whitespace stands at e
\* (what follows \s+ in these patterns never starts with whitespace, so the
\* search only succeeds with the whole run consumed)
AfterSpaces(s, e) ==
    IF e \in 1..Len(s) /\ s[e] \in Whitespace
    THEN SpanEnd(s, e, Whitespace) + 1
    ELSE 0

----------------------------------------------------------------------------
(* Quantity: /(?:last|recent|top|first)\s+(\d+)|                           *)
(*            (\d+)\s+(?:last|recent|top|largest|biggest|smallest)/        *)

QuantityPrefixes ==
    << <<"l","a","s","t">>,
       <<"r","e","c","e","n","t">>,
       <<"t","o","p">>,
       <<"f","i","r","s","t">> >>

QuantitySuffixes ==
    << <<"l","a","s","t">>,
       <<"r","e","c","e","n","t">>,
       <<"t","o","p">>,
       <<"l","a","r","g","e","s","t">>,
       <<"b","i","g","g","e","s","t">>,
       <<"s","m","a","l","l","e","s","t">> >>

\* the digits \d+ consumes at d, <<>> when no digit stands there
DigitsAt(s, d) ==
    IF d \in 1..Len(s) /\ s[d] \in Digit
    THEN SubSeq(s, d, SpanEnd(s, d, Digit))
    ELSE <<>>

\* the attempt at start position i: numberMatch[1] || numberMatch[2]
numberMatchAt(s, i) ==
    LET prefix == FirstAlternative(s, i, QuantityPrefixes,
                      [e \in Positions(s) |-> DigitsAt(s, AfterSpaces(s, e)) # <<>>])
        count  == DigitsAt(s, i)
        word   == AfterSpaces(s, i + Len(count))
    IN  IF prefix # 0
        THEN DigitsAt(s, AfterSpaces(s, i + Len(QuantityPrefixes[prefix])))
        ELSE IF count # <<>> /\ word # 0
                /\ \E n \in DOMAIN QuantitySuffixes : LitAt(s, word, QuantitySuffixes[n])
        THEN count
        ELSE NoMatch

numberMatch(lowerQuery) ==
    Leftmost([i \in Positions(lowerQuery) |-> numberMatchAt(lowerQuery, i)])

MaxLimit == 100

\* ExtractQuantity with a sign allowed before the digits, (-?\d+) after the
\* prefix word: parseInt of "-5" is -5, which is truthy and <= 100
ExtractQuantity_Signed(args, lowerQuery) ==
    LET m      == numberMatch(lowerQuery)
        signed == {i \in Positions(lowerQuery) :
                      \E n \in DOMAIN QuantityPrefixes :
                          LET a == AfterSpaces(lowerQuery, i + Len(QuantityPrefixes[n]))
                          IN  /\ LitAt(lowerQuery, i, QuantityPrefixes[n])
                              /\ LitAt(lowerQuery, a, <<"-">>)
                              /\ DigitsAt(lowerQuery, a + 1) # <<>>}
        minus  == CHOOSE a \in Positions(lowerQuery) :
                      /\ LitAt(lowerQuery, a, <<"-">>)
                      /\ DigitsAt(lowerQuery, a + 1) # <<>>
    IN  IF m # NoMatch /\ parseInt(m) # 0 /\ parseInt(m) <= MaxLimit
        THEN Put(args, "limit", parseInt(m))
        ELSE IF signed # {}
        THEN Put(args, "limit", 0 - parseInt(DigitsAt(lowerQuery, minus + 1)))
        ELSE args

\* ExtractQuantity with the bound written `number < 100`
ExtractQuantity_Exclusive(args, lowerQuery) ==
    LET m == numberMatch(lowerQuery)
    IN  IF m # NoMatch /\ parseInt(m) # 0 /\ parseInt(m) < MaxLimit
        THEN Put(args, "limit", parseInt(m))
        ELSE args

\* ExtractQuantity clamping an oversized number: Math.min(number, 100)
ExtractQuantity_Clamped(args, lowerQuery) ==
    LET m == numberMatch(lowerQuery)
    IN  IF m # NoMatch /\ parseInt(m) # 0
        THEN Put(args, "limit", IF parseInt(m) <= MaxLimit THEN parseInt(m) ELSE MaxLimit)
        ELSE args

\* ExtractQuantity without the upper bound: if (number) limit = number
ExtractQuantity_Unchecked(args, lowerQuery) ==
    LET m == numberMatch(lowerQuery)
    IN  IF m # NoMatch /\ parseInt(m) # 0
        THEN Put(args, "limit", parseInt(m))
        ELSE args

\* if (numberMatch) { number = parseInt(...); if (number && number <= 100) limit = number }
ExtractQuantity(args, lowerQuery) ==
    LET m == numberMatch(lowerQuery)
    IN  IF m # NoMatch /\ parseInt(m) # 0 /\ parseInt(m) <= MaxLimit
        THEN Put(args, "limit", parseInt(m))
        ELSE args

----------------------------------------------------------------------------
(* Merchant patterns, tried in this order *)

KnownMerchants ==
    << <<"a","m","a","z","o","n">>,
       <<"s","t","a","r","b","u","c","k","s">>,
       <<"w","a","l","m","a","r","t">>,
       <<"t","a","r","g","e","t">>,
       <<"c","o","s","t","c","o">>,
       <<"n","e","t","f","l","i","x">>,
       <<"u","b","e","r">>,
       <<"a","i","r","b","n","b">>,
       <<"a","p","p","l","e">>,
       <<"g","o","o","g","l","e">>,
       <<"m","i","c","r","o","s","o","f","t">>,
       <<"t","e","s","l","a">> >>

MerchantSuffixes ==
    << <<"c","h","a","r","g","e">>,
       <<"p","a","y","m","e","n","t">>,
       <<"t","r","a","n","s","a","c","t","i","o","n">> >>

commonWords ==
    << <<"t","h","e">>,
       <<"a","n","d">>,
       <<"o","r">>,
       <<"t","h","i","s">>,
       <<"t","h","a","t">>,
       <<"m","o","n","t","h">>,
       <<"w","e","e","k">>,
       <<"y","e","a","r">>,
       <<"d","a","y">>,
       <<"l","a","s","t">>,
       <<"r","e","c","e","n","t">>,
       <<"c","h","a","r","g","e","s">>,
       <<"t","r","a","n","s","a","c","t","i","o","n","s">> >>

\* /\b(amazon|starbucks|...|tesla)\b/ attempted at i: match[1]
KnownMerchantAt(s, i) ==
    LET n == IF WordBoundary(s, i)
             THEN FirstAlternative(s, i, KnownMerchants,
                                   [e \in Positions(s) |-> WordBoundary(s, e)])
             ELSE 0
    IN  IF n = 0 THEN NoMatch ELSE KnownMerchants[n]

\* ([a-zA-Z][a-zA-Z0-9\s&]+?) attempted at b, the lazy quantifier extended
\* until then[position after the group] holds: the group, NoMatch when the
\* search fails
LazyMerchantAt(s, b, then) ==
    IF b \in 1..Len(s) /\ s[b] \in Alpha
    THEN LET ends == {e \in (b + 1)..SpanEnd(s, b + 1, MerchantChar) : then[e + 1]}
         IN  IF ends # {} THEN SubSeq(s, b, Min(ends)) ELSE NoMatch
    ELSE NoMatch

\* PrepositionAt with the preposition optional: (?:from\s+|at\s+|@?\s*)
PrepositionAt_Optional(s, i) ==
    IF LitAt(s, i, <<"f","r","o","m">>) THEN AfterSpaces(s, i + 4)
    ELSE IF LitAt(s, i, <<"a","t">>) THEN AfterSpaces(s, i + 2)
    ELSE IF LitAt(s, i, <<"@">>) THEN SpanEnd(s, i + 1, Whitespace) + 1
    ELSE SpanEnd(s, i, Whitespace) + 1

\* the position after (?:from\s+|at\s+|@\s*) attempted at i, 0 when it fails
PrepositionAt(s, i) ==
    IF LitAt(s, i, <<"f","r","o","m">>) THEN AfterSpaces(s, i + 4)
    ELSE IF LitAt(s, i, <<"a","t">>) THEN AfterSpaces(s, i + 2)
    ELSE IF LitAt(s, i, <<"@">>) THEN SpanEnd(s, i + 1, Whitespace) + 1
    ELSE 0

\* /(?:from\s+|at\s+|@\s*)([a-zA-Z][a-zA-Z0-9\s&]+?)(?:\s|$)/ attempted at i
FromAtMerchantAt(s, i) ==
    IF PrepositionAt(s, i) = 0 THEN NoMatch
    ELSE LazyMerchantAt(s, PrepositionAt(s, i),
             [e \in Positions(s) |-> e = Len(s) + 1 \/ s[e] \in Whitespace])

\* /([a-zA-Z][a-zA-Z0-9\s&]+?)\s+(?:charges?|payments?|transactions?)/ at i
ChargesMerchantAt(s, i) ==
    LazyMerchantAt(s, i,
        [e \in Positions(s) |->
            /\ AfterSpaces(s, e) # 0
            /\ \E n \in DOMAIN MerchantSuffixes :
                   LitAt(s, AfterSpaces(s, e), MerchantSuffixes[n])])

\* /(?:spent\s+(?:at|on)\s+)([a-zA-Z][a-zA-Z0-9\s&]+)/ attempted at i
SpentMerchantAt(s, i) ==
    LET p == IF LitAt(s, i, <<"s","p","e","n","t">>) THEN AfterSpaces(s, i + 5) ELSE 0
        b == IF p # 0 /\ (LitAt(s, p, <<"a","t">>) \/ LitAt(s, p, <<"o","n">>))
             THEN AfterSpaces(s, p + 2)
             ELSE 0
    IN  IF b \in 1..Len(s) /\ s[b] \in Alpha
           /\ b + 1 <= Len(s) /\ s[b + 1] \in MerchantChar
        THEN SubSeq(s, b, SpanEnd(s, b + 1, MerchantChar))
        ELSE NoMatch

\* merchantPatterns with the preposition pattern listed before the known names
merchantPatterns_PrepositionFirst(n, lowerQuery) ==
    CASE n = 1 -> Leftmost([i \in Positions(lowerQuery) |-> FromAtMerchantAt(lowerQuery, i)])
      [] n = 2 -> Leftmost([i \in Positions(lowerQuery) |-> KnownMerchantAt(lowerQuery, i)])
      [] n = 3 -> Leftmost([i \in Positions(lowerQuery) |-> ChargesMerchantAt(lowerQuery, i)])
      [] n = 4 -> Leftmost([i \in Positions(lowerQuery) |-> SpentMerchantAt(lowerQuery, i)])

\* lowerQuery.match(merchantPatterns[n])[1], NoMatch when the match is null
merchantPatterns(n, lowerQuery) ==
    CASE n = 1 -> Leftmost([i \in Positions(lowerQuery) |-> KnownMerchantAt(lowerQuery, i)])
      [] n = 2 -> Leftmost([i \in Positions(lowerQuery) |-> FromAtMerchantAt(lowerQuery, i)])
      [] n = 3 -> Leftmost([i \in Positions(lowerQuery) |-> ChargesMerchantAt(lowerQuery, i)])
      [] n = 4 -> Leftmost([i \in Positions(lowerQuery) |-> SpentMerchantAt(lowerQuery, i)])

PatternCount == 4

\* /^\d+$/.test(merchant)
isNumber(merchant) ==
    Len(merchant) > 0 /\ \A k \in 1..Len(merchant) : merchant[k] \in Digit

\* AcceptedMerchant without the commonWords test
AcceptedMerchant_NoStopWords(merchant) ==
    /\ ~isNumber(merchant)
    /\ Len(merchant) > 1

\* !commonWords.includes(merchant) && !isNumber && merchant.length > 1
AcceptedMerchant(merchant) ==
    /\ merchant \notin Range(commonWords)
    /\ ~isNumber(merchant)
    /\ Len(merchant) > 1

\* for (const pattern of merchantPatterns) { ... break; }
RECURSIVE ExtractMerchantFrom(_, _, _)
ExtractMerchantFrom(args, lowerQuery, n) ==
    IF n > PatternCount THEN args
    ELSE LET match == merchantPatterns(n, lowerQuery)
         IN  IF match # NoMatch /\ AcceptedMerchant(trim(match))
             THEN Put(args, "search", trim(match))
             ELSE ExtractMerchantFrom(args, lowerQuery, n + 1)

ExtractMerchant(args, lowerQuery) == ExtractMerchantFrom(args, lowerQuery, 1)

----------------------------------------------------------------------------
(* Dates: a calendar date is [year, month, date], month 1..12.             *)
(* clock is the local calendar date of `new Date()` together with what     *)
(* the time zone does to an ISO (UTC) rendering: midnightShift is the UTC  *)
(* date minus the local date of a local midnight (0 at or west of UTC, -1  *)
(* east of it), nowShift the same for the current instant.                 *)

isLeapYear(y) == (y % 4 = 0 /\ y % 100 # 0) \/ y % 400 = 0

DaysInMonth(y, m) ==
    IF m = 2 THEN (IF isLeapYear(y) THEN 29 ELSE 28)
    ELSE IF m \in {4, 6, 9, 11} THEN 30
    ELSE 31

NextDay(d) ==
    IF d.date < DaysInMonth(d.year, d.month) THEN [d EXCEPT !.date = @ + 1]
    ELSE IF d.month < 12 THEN [d EXCEPT !.month = @ + 1, !.date = 1]
    ELSE [year |-> d.year + 1, month |-> 1, date |-> 1]

PrevDay(d) ==
    IF d.date > 1 THEN [d EXCEPT !.date = @ - 1]
    ELSE IF d.month > 1
    THEN [d EXCEPT !.month = @ - 1, !.date = DaysInMonth(d.year, d.month - 1)]
    ELSE [year |-> d.year - 1, month |-> 12, date |-> 31]

\* Date.prototype.setDate(getDate() + n)
RECURSIVE AddDays(_, _)
AddDays(d, n) ==
    IF n = 0 THEN d
    ELSE IF n > 0 THEN AddDays(NextDay(d), n - 1)
    ELSE AddDays(PrevDay(d), n + 1)

\* Date.prototype.getDay: 0 is Sunday
getDay(d) ==
    LET t == <<0, 3, 2, 5, 0, 3, 5, 1, 4, 6, 2, 4>>
        y == IF d.month < 3 THEN d.year - 1 ELSE d.year
    IN  (y + (y \div 4) - (y \div 100) + (y \div 400) + t[d.month] + d.date) % 7

\* Number.prototype.toString of a natural number
RECURSIVE toString(_)
toString(n) ==
    IF n < 10 THEN <<DecimalDigits[n + 1]>>
    ELSE toString(n \div 10) \o <<DecimalDigits[(n % 10) + 1]>>

\* String.prototype.padStart(width, '0')
RECURSIVE padStart(_, _)
padStart(s, width) == IF Len(s) >= width THEN s ELSE padStart(<<"0">> \o s, width)

LocalDate(c) == [year |-> c.year, month |-> c.month, date |-> c.date]

\* toISOString().split('T')[0] of the instant that is `shift` days from the
\* local date d when seen in UTC
toISODate(d, shift) ==
    LET u == AddDays(d, shift)
    IN  padStart(toString(u.year), 4) \o <<"-">> \o padStart(toString(u.month), 2)
            \o <<"-">> \o padStart(toString(u.date), 2)

ThisMonth == <<"t","h","i","s"," ","m","o","n","t","h">>

LastMonth == <<"l","a","s","t"," ","m","o","n","t","h">>

ThisWeek == <<"t","h","i","s"," ","w","e","e","k">>

\* `${year}-${month.toString().padStart(2, '0')}-01`
FirstOfMonth(year, month) ==
    toString(year) \o <<"-">> \o padStart(toString(month), 2) \o <<"-","0","1">>

\* new Date(year, month, 0): day 0 of the next month (month is 1-based here,
\* so it is the 0-based index of the next month), the last day of `month`
EndOfMonth(year, month) ==
    [year |-> year, month |-> month, date |-> DaysInMonth(year, month)]

\* ExtractTimePeriod testing 'last month' before 'this month'
ExtractTimePeriod_LastMonthFirst(args, lowerQuery, now) ==
    LET currentYear  == now.year
        currentMonth == now.month
        lastMonth    == IF currentMonth = 1 THEN 12 ELSE currentMonth - 1
        year         == IF currentMonth = 1 THEN currentYear - 1 ELSE currentYear
        startOfWeek  == AddDays(LocalDate(now), 0 - getDay(LocalDate(now)))
    IN  IF includes(lowerQuery, LastMonth)
        THEN Put(Put(args, "startDate", FirstOfMonth(year, lastMonth)),
                 "endDate", toISODate(EndOfMonth(year, lastMonth), now.midnightShift))
        ELSE IF includes(lowerQuery, ThisMonth)
        THEN Put(Put(args, "startDate", FirstOfMonth(currentYear, currentMonth)),
                 "endDate",
                 toISODate(EndOfMonth(currentYear, currentMonth), now.midnightShift))
        ELSE IF includes(lowerQuery, ThisWeek)
        THEN Put(Put(args, "startDate", toISODate(startOfWeek, now.nowShift)),
                 "endDate", toISODate(LocalDate(now), now.nowShift))
        ELSE args

ExtractTimePeriod(args, lowerQuery, now) ==
    LET currentYear  == now.year
        currentMonth == now.month
        lastMonth    == IF currentMonth = 1 THEN 12 ELSE currentMonth - 1
        year         == IF currentMonth = 1 THEN currentYear - 1 ELSE currentYear
        startOfWeek  == AddDays(LocalDate(now), 0 - getDay(LocalDate(now)))
    IN  IF includes(lowerQuery, ThisMonth)
        THEN Put(Put(args, "startDate", FirstOfMonth(currentYear, currentMonth)),
                 "endDate",
                 toISODate(EndOfMonth(currentYear, currentMonth), now.midnightShift))
        ELSE IF includes(lowerQuery, LastMonth)
        THEN Put(Put(args, "startDate", FirstOfMonth(year, lastMonth)),
                 "endDate", toISODate(EndOfMonth(year, lastMonth), now.midnightShift))
        ELSE IF includes(lowerQuery, ThisWeek)
        THEN Put(Put(args, "startDate", toISODate(startOfWeek, now.nowShift)),
                 "endDate", toISODate(LocalDate(now), now.nowShift))
        ELSE args

----------------------------------------------------------------------------
(* Amounts. A number is held in ten-thousandths, so that two decimals of   *)
(* the literal and the factors 0.99 and 1.01 are exact.                    *)

null == <<>>

Number(n) == <<n>>

\* (\d+(?:,\d{3})*(?:\.\d{2})?) attempted at d: the position after it; each
\* quantifier is greedy and nothing follows, so the first try succeeds
RECURSIVE ThousandsEnd(_, _)
ThousandsEnd(s, e) ==
    IF LitAt(s, e, <<",">>) /\ Len(DigitsAt(s, e + 1)) >= 3
    THEN ThousandsEnd(s, e + 4)
    ELSE e

AmountLiteralAt(s, d) ==
    LET e == ThousandsEnd(s, d + Len(DigitsAt(s, d)))
    IN  IF DigitsAt(s, d) = <<>> THEN NoMatch
        ELSE IF LitAt(s, e, <<".">>) /\ Len(DigitsAt(s, e + 1)) >= 2
        THEN SubSeq(s, d, e + 2)
        ELSE SubSeq(s, d, e - 1)

\* \s*\$?(literal) attempted at e: the captured literal
AmountAfter(s, e) ==
    LET a == SpanEnd(s, e, Whitespace) + 1
    IN  IF LitAt(s, a, <<"$">>) /\ AmountLiteralAt(s, a + 1) # NoMatch
        THEN AmountLiteralAt(s, a + 1)
        ELSE AmountLiteralAt(s, a)

\* the position after word1\s+word2 attempted at i, 0 when it fails
TwoWordsAt(s, i, word1, word2) ==
    IF LitAt(s, i, word1) /\ LitAt(s, AfterSpaces(s, i + Len(word1)), word2)
    THEN AfterSpaces(s, i + Len(word1)) + Len(word2)
    ELSE 0

\* /(?:over|above|more\s+than)\s*\$?(\d+(?:,\d{3})*(?:\.\d{2})?)/ attempted at i
amountMatchAt(s, i) ==
    IF LitAt(s, i, <<"o","v","e","r">>) THEN AmountAfter(s, i + 4)
    ELSE IF LitAt(s, i, <<"a","b","o","v","e">>) THEN AmountAfter(s, i + 5)
    ELSE IF TwoWordsAt(s, i, <<"m","o","r","e">>, <<"t","h","a","n">>) # 0
    THEN AmountAfter(s, TwoWordsAt(s, i, <<"m","o","r","e">>, <<"t","h","a","n">>))
    ELSE NoMatch

\* /(?:under|below|less\s+than)\s*\$?(\d+(?:,\d{3})*(?:\.\d{2})?)/ attempted at i
underMatchAt(s, i) ==
    IF LitAt(s, i, <<"u","n","d","e","r">>) THEN AmountAfter(s, i + 5)
    ELSE IF LitAt(s, i, <<"b","e","l","o","w">>) THEN AmountAfter(s, i + 5)
    ELSE IF TwoWordsAt(s, i, <<"l","e","s","s">>, <<"t","h","a","n">>) # 0
    THEN AmountAfter(s, TwoWordsAt(s, i, <<"l","e","s","s">>, <<"t","h","a","n">>))
    ELSE NoMatch

\* /(?:exactly|equal\s+to)\s*\$?(\d+(?:,\d{3})*(?:\.\d{2})?)/ attempted at i
exactMatchAt(s, i) ==
    IF LitAt(s, i, <<"e","x","a","c","t","l","y">>) THEN AmountAfter(s, i + 7)
    ELSE IF TwoWordsAt(s, i, <<"e","q","u","a","l">>, <<"t","o">>) # 0
    THEN AmountAfter(s, TwoWordsAt(s, i, <<"e","q","u","a","l">>, <<"t","o">>))
    ELSE NoMatch

\* literal.replace(/,/g, '')
removeCommas(s) == SelectSeq(s, LAMBDA c : c # ",")

\* parseFloat of digits with an optional two-digit fraction, in ten-thousandths
parseFloat(s) ==
    LET dot == {i \in 1..Len(s) : s[i] = "."}
    IN  IF dot = {} THEN parseInt(s) * 10000
        ELSE parseInt(SubSeq(s, 1, Min(dot) - 1)) * 10000
                 + parseInt(SubSeq(s, Min(dot) + 1, Len(s))) * 100

\* amount * 0.99, amount * 1.01
Times(amount, hundredths) == (amount * hundredths) \div 100

ExtractAmountRange(args, lowerQuery) ==
    LET amountMatch == Leftmost([i \in Positions(lowerQuery) |-> amountMatchAt(lowerQuery, i)])
        underMatch  == Leftmost([i \in Positions(lowerQuery) |-> underMatchAt(lowerQuery, i)])
        exactMatch  == Leftmost([i \in Positions(lowerQuery) |-> exactMatchAt(lowerQuery, i)])
        over  == IF amountMatch = NoMatch THEN args
                 ELSE Put(args, "absAmountRange",
                          <<Number(parseFloat(removeCommas(amountMatch))), null>>)
        under == IF underMatch = NoMatch THEN over
                 ELSE Put(over, "absAmountRange",
                          <<null, Number(parseFloat(removeCommas(underMatch)))>>)
    IN  IF exactMatch = NoMatch THEN under
        ELSE Put(under, "absAmountRange",
                 <<Number(Times(parseFloat(removeCommas(exactMatch)), 99)),
                   Number(Times(parseFloat(removeCommas(exactMatch)), 101))>>)

----------------------------------------------------------------------------
(* Defaults and the whole function *)

DefaultLimit == 25

AllLimit == 100

\* !enhancedArgs.limit
NoLimit(args) == ~has(args, "limit") \/ args["limit"] = 0

\* ApplyDefaults without the "all" case
ApplyDefaults_IgnoresAll(args, lowerQuery) ==
    IF NoLimit(args) THEN Put(args, "limit", DefaultLimit) ELSE args

ApplyDefaults(args, lowerQuery) ==
    IF NoLimit(args)
    THEN Put(args, "limit",
             IF includes(lowerQuery, <<"a","l","l">>) THEN AllLimit ELSE DefaultLimit)
    ELSE args

\* parseNaturalLanguageQuery matching on the query as written: lowerQuery = query
parseNaturalLanguageQuery_CaseSensitive(q, existing, now) ==
    LET lowerQuery == q
        spread     == existing
        quantity   == ExtractQuantity(spread, lowerQuery)
        merchant   == ExtractMerchant(quantity, lowerQuery)
        period     == ExtractTimePeriod(merchant, lowerQuery, now)
        amounts    == ExtractAmountRange(period, lowerQuery)
    IN  ApplyDefaults(amounts, lowerQuery)

\* parseNaturalLanguageQuery starting from an empty object: enhancedArgs = {}
parseNaturalLanguageQuery_IgnoresExisting(q, existing, now) ==
    LET lowerQuery == toLowerCase(q)
        spread     == EmptyObject
        quantity   == ExtractQuantity(spread, lowerQuery)
        merchant   == ExtractMerchant(quantity, lowerQuery)
        period     == ExtractTimePeriod(merchant, lowerQuery, now)
        amounts    == ExtractAmountRange(period, lowerQuery)
    IN  ApplyDefaults(amounts, lowerQuery)

parseNaturalLanguageQuery(q, existing, now) ==
    LET lowerQuery == toLowerCase(q)
        spread     == existing
        quantity   == ExtractQuantity(spread, lowerQuery)
        merchant   == ExtractMerchant(quantity, lowerQuery)
        period     == ExtractTimePeriod(merchant, lowerQuery, now)
        amounts    == ExtractAmountRange(period, lowerQuery)
    IN  ApplyDefaults(amounts, lowerQuery)

----------------------------------------------------------------------------
(* MonarchMcpServer.parseNaturalLanguageQuery: the parser the server runs. *)
(* It ignores its second argument and starts from an empty object.         *)

\* each pattern is a list of alternatives, each alternative a list of
\* literals separated by \s+ (only gas\s+station has more than one)
ServerMerchantPatterns ==
    << [pattern |-> << <<<<"a","m","a","z","o","n">>>>, <<<<"a","m","z","n">>>> >>,
         search |-> <<"a","m","a","z","o","n">>],
       [pattern |-> << <<<<"w","a","l","m","a","r","t">>>>, <<<<"w","a","l","-","m","a","r","t">>>> >>,
         search |-> <<"w","a","l","m","a","r","t">>],
       [pattern |-> << <<<<"t","a","r","g","e","t">>>> >>,
         search |-> <<"t","a","r","g","e","t">>],
       [pattern |-> << <<<<"c","o","s","t","c","o">>>> >>,
         search |-> <<"c","o","s","t","c","o">>],
       [pattern |-> << <<<<"s","t","a","r","b","u","c","k","s">>>> >>,
         search |-> <<"s","t","a","r","b","u","c","k","s">>],
       [pattern |-> << <<<<"m","c","d","o","n","a","l","d","s">>>>, <<<<"m","c","d","o","n","a","l","d","'","s">>>> >>,
         search |-> <<"m","c","d","o","n","a","l","d","s">>],
       [pattern |-> << <<<<"n","e","t","f","l","i","x">>>> >>,
         search |-> <<"n","e","t","f","l","i","x">>],
       [pattern |-> << <<<<"s","p","o","t","i","f","y">>>> >>,
         search |-> <<"s","p","o","t","i","f","y">>],
       [pattern |-> << <<<<"u","b","e","r">>>>, <<<<"l","y","f","t">>>> >>,
         search |-> <<"u","b","e","r">>],
       [pattern |-> << <<<<"a","p","p","l","e">>>>, <<<<"a","p","p"," ","s","t","o","r","e">>>> >>,
         search |-> <<"a","p","p","l","e">>],
       [pattern |-> << <<<<"g","o","o","g","l","e">>>>, <<<<"y","o","u","t","u","b","e">>>> >>,
         search |-> <<"g","o","o","g","l","e">>],
       [pattern |-> << <<<<"g","a","s">>, <<"s","t","a","t","i","o","n">>>>, <<<<"g","a","s","o","l","i","n","e">>>>, <<<<"f","u","e","l">>>> >>,
         search |-> <<"g","a","s">>],
       [pattern |-> << <<<<"r","e","s","t","a","u","r","a","n","t">>>>, <<<<"d","i","n","i","n","g">>>>, <<<<"f","o","o","d">>>> >>,
         search |-> <<"r","e","s","t","a","u","r","a","n","t">>],
       [pattern |-> << <<<<"g","r","o","c","e","r","y">>>>, <<<<"g","r","o","c","e","r","i","e","s">>>> >>,
         search |-> <<"g","r","o","c","e","r","y">>],
       [pattern |-> << <<<<"s","u","b","s","c","r","i","p","t","i","o","n">>>>, <<<<"s","u","b","s","c","r","i","p","t","i","o","n","s">>>> >>,
         search |-> <<"s","u","b","s","c","r","i","p","t","i","o","n">>] >>

\* the position after the literals of `alternative` attempted at i, 0 on failure
RECURSIVE PiecesAt(_, _, _)
PiecesAt(s, i, alternative) ==
    IF ~LitAt(s, i, Head(alternative)) THEN 0
    ELSE IF Len(alternative) = 1 THEN i + Len(Head(alternative))
    ELSE PiecesAt(s, AfterSpaces(s, i + Len(Head(alternative))), Tail(alternative))

\* pattern.test(lowerQuery)
test(pattern, s) ==
    \E i \in 1..(Len(s) + 1) : \E a \in DOMAIN pattern : PiecesAt(s, i, pattern[a]) # 0

\* for (const { pattern, search } of merchantPatterns) if (pattern.test(..)) { ...; break; }
ServerExtractMerchant(args, lowerQuery) ==
    LET hits == {n \in DOMAIN ServerMerchantPatterns :
                    test(ServerMerchantPatterns[n].pattern, lowerQuery)}
    IN  IF hits = {} THEN args
        ELSE Put(args, "search", ServerMerchantPatterns[Min(hits)].search)

\* new Date(now.getFullYear(), now.getMonth() - 1, 1)
FirstOfPreviousMonth(now) ==
    IF now.month = 1 THEN [year |-> now.year - 1, month |-> 12, date |-> 1]
    ELSE [year |-> now.year, month |-> now.month - 1, date |-> 1]

ServerExtractTimePeriod(args, lowerQuery, now) ==
    LET firstOfMonth == [year |-> now.year, month |-> now.month, date |-> 1]
        lastMonth    == FirstOfPreviousMonth(now)
        lastMonthEnd == PrevDay(firstOfMonth)
        startOfWeek  == AddDays(LocalDate(now), 0 - getDay(LocalDate(now)))
    IN  IF includes(lowerQuery, ThisMonth)
        THEN Put(Put(args, "startDate", toISODate(firstOfMonth, now.midnightShift)),
                 "endDate", toISODate(LocalDate(now), now.nowShift))
        ELSE IF includes(lowerQuery, LastMonth)
        THEN Put(Put(args, "startDate", toISODate(lastMonth, now.midnightShift)),
                 "endDate", toISODate(lastMonthEnd, now.midnightShift))
        ELSE IF includes(lowerQuery, ThisWeek)
        THEN Put(Put(args, "startDate", toISODate(startOfWeek, now.nowShift)),
                 "endDate", toISODate(LocalDate(now), now.nowShift))
        ELSE args

\* an array slot holding undefined; JSON writes it as null
undefined == <<>>

\* /(?:over|above|more than)\s*\$?(...)|(?:under|below|less than)\s*\$?(...)/
\* attempted at i: amountMatch[1] || amountMatch[2]
ServerAmountMatchAt(s, i) ==
    LET words == << <<"o","v","e","r">>, <<"a","b","o","v","e">>,
                    <<"m","o","r","e"," ","t","h","a","n">>,
                    <<"u","n","d","e","r">>, <<"b","e","l","o","w">>,
                    <<"l","e","s","s"," ","t","h","a","n">> >>
        n == FirstAlternative(s, i, words, [e \in Positions(s) |-> AmountAfter(s, e) # NoMatch])
    IN  IF n = 0 THEN NoMatch ELSE AmountAfter(s, i + Len(words[n]))

ServerExtractAmountRange(args, lowerQuery) ==
    LET amountMatch == Leftmost([i \in Positions(lowerQuery) |-> ServerAmountMatchAt(lowerQuery, i)])
        amount      == Number(parseFloat(removeCommas(amountMatch)))
    IN  IF amountMatch = NoMatch THEN args
        ELSE IF \/ includes(lowerQuery, <<"o","v","e","r">>)
                \/ includes(lowerQuery, <<"a","b","o","v","e">>)
                \/ includes(lowerQuery, <<"m","o","r","e"," ","t","h","a","n">>)
        THEN Put(args, "absAmountRange", <<amount, undefined>>)
        ELSE Put(args, "absAmountRange", <<undefined, amount>>)

ServerExtractSort(args, lowerQuery) ==
    IF \/ includes(lowerQuery, <<"l","a","r","g","e","s","t">>)
       \/ includes(lowerQuery, <<"b","i","g","g","e","s","t">>)
       \/ includes(lowerQuery, <<"h","i","g","h","e","s","t">>)
    THEN Put(args, "_sortByAmount", <<"d","e","s","c">>)
    ELSE IF \/ includes(lowerQuery, <<"s","m","a","l","l","e","s","t">>)
            \/ includes(lowerQuery, <<"l","o","w","e","s","t">>)
    THEN Put(args, "_sortByAmount", <<"a","s","c">>)
    ELSE args

MonarchMcpServer_parseNaturalLanguageQuery(q, now) ==
    LET lowerQuery == toLowerCase(q)
        quantity   == ExtractQuantity(EmptyObject, lowerQuery)
        merchant   == ServerExtractMerchant(quantity, lowerQuery)
        period     == ServerExtractTimePeriod(merchant, lowerQuery, now)
        amounts    == ServerExtractAmountRange(period, lowerQuery)
    IN  ServerExtractSort(amounts, lowerQuery)

----------------------------------------------------------------------------
(* The inputs: a query is up to MaxParts phrases written one after another *)

MaxParts == 2

Phrases ==
    <<
       <<"l","a","s","t"," ","5"," ">>,   \* last 5 
       <<"3"," ","l","a","r","g","e","s","t"," ">>,   \* 3 largest 
       <<"f","i","r","s","t"," ","1","0","0"," ">>,   \* first 100 
       <<"l","a","s","t"," ","9","9","9"," ">>,   \* last 999 
       <<"a","l","l"," ">>,   \* all 
       <<"A","m","a","z","o","n"," ">>,   \* Amazon 
       <<"c","h","a","r","g","e","s"," ">>,   \* charges 
       <<"f","r","o","m"," ","t","h","e"," ">>,   \* from the 
       <<"f","r","o","m"," ","p","i","n","e","a","p","p","l","e"," ">>,   \* from pineapple 
       <<"s","p","e","n","t"," ","o","n"," ","h","a","n","o","v","e","r"," ">>,   \* spent on hanover 
       <<"a","t"," ",DotlessI,"k","e","a"," ">>,   \* at (dotless i)kea 
       <<"o","v","e","r"," ","$","5","0"," ">>,   \* over $50 
       <<"u","n","d","e","r"," ","$","1",",","2","3","4",".","5","6"," ">>,   \* under $1,234.56 
       <<"e","x","a","c","t","l","y"," ","$","5","0"," ">>,   \* exactly $50 
       <<"e","q","u","a","l"," ","t","o"," ","1","2",".","5"," ">>,   \* equal to 12.5 
       <<"s","h","o","w"," ","m","e"," ","s","t","u","f","f"," ">>,   \* show me stuff 
       <<"t","h","i","s"," ","m","o","n","t","h"," ">> >>   \* this month 

RECURSIVE Queries(_)
Queries(n) ==
    IF n = 0 THEN {<<>>}
    ELSE Queries(n - 1) \cup
         {q \o Phrases[p] : q \in Queries(n - 1), p \in DOMAIN Phrases}

BaseFilters ==
    { EmptyObject,
      [limit |-> 50, orderBy |-> <<"d","a","t","e">>],
      [limit |-> 500, search |-> <<"t","h","e">>] }

Clocks ==
    { [year |-> 2025, month |-> 1, date |-> 31, midnightShift |-> -1, nowShift |-> 0] }

Init ==
    /\ query \in Queries(MaxParts)
    /\ existingArgs \in BaseFilters
    /\ clock \in Clocks
    /\ done = {}
    /\ enhancedArgs = EmptyObject
    /\ upperArgs = EmptyObject
    /\ serverArgs = EmptyObject
    /\ BesideParserIdle

\* One behaviour is one use of a parser: the unit-tested function on the
\* query and then on its upper-cased form, or the server's own method.

\* parseNaturalLanguageQuery(query, existingArgs)
ParseQuery ==
    /\ done = {}
    /\ enhancedArgs' = parseNaturalLanguageQuery(query, existingArgs, clock)
    /\ done' = {"parse"}
    /\ UNCHANGED <<query, existingArgs, clock, upperArgs, serverArgs>>
    /\ UNCHANGED besideParser

\* parseNaturalLanguageQuery(query.toUpperCase(), existingArgs)
ParseUpperCased ==
    /\ done = {"parse"}
    /\ upperArgs' = parseNaturalLanguageQuery(toUpperCase(query), existingArgs, clock)
    /\ done' = {"parse", "parseUpper"}
    /\ UNCHANGED <<query, existingArgs, clock, enhancedArgs, serverArgs>>
    /\ UNCHANGED besideParser

\* this.parseNaturalLanguageQuery(query, existingArgs) in MonarchMcpServer
ServerParseQuery ==
    /\ done = {}
    /\ serverArgs' = MonarchMcpServer_parseNaturalLanguageQuery(query, clock)
    /\ done' = {"serverParse"}
    /\ UNCHANGED <<query, existingArgs, clock, enhancedArgs, upperArgs>>
    /\ UNCHANGED besideParser

Next ==
    \/ ParseQuery
    \/ ParseUpperCased

Spec == Init /\ [][Next]_vars

\* the server's parser alone, on the same inputs
ServerNext == ServerParseQuery

ServerSpec == Init /\ [][ServerNext]_vars

\* The relative-time phrases, for the time-period stage alone: queries made of
\* these phrases, read at several instants and in several time zones.
TimePhrases ==
    << <<"t","h","i","s"," ","m","o","n","t","h"," ">>,
       <<"l","a","s","t"," ","m","o","n","t","h"," ">>,
       <<"t","h","i","s"," ","w","e","e","k"," ">>,
       <<"s","h","o","w"," ","m","e"," ","s","t","u","f","f"," ">> >>

RECURSIVE TimeQueries(_)
TimeQueries(n) ==
    IF n = 0 THEN {<<>>}
    ELSE TimeQueries(n - 1) \cup
         {q \o TimePhrases[p] : q \in TimeQueries(n - 1), p \in DOMAIN TimePhrases}

\* the last day of January, the first of March of a leap year, the last day
\* of a year and a Sunday that opens a month
Todays ==
    { [year |-> 2025, month |-> 1, date |-> 31],
      [year |-> 2024, month |-> 3, date |-> 1],
      [year |-> 2025, month |-> 12, date |-> 31],
      [year |-> 2026, month |-> 11, date |-> 1] }

\* UTC; west of UTC in the evening (the UTC date is already tomorrow); east
\* of UTC early in the morning (local midnight and now are still yesterday
\* in UTC) and later in the day
ZoneShifts ==
    { [midnightShift |-> 0, nowShift |-> 0],
      [midnightShift |-> 0, nowShift |-> 1],
      [midnightShift |-> -1, nowShift |-> -1],
      [midnightShift |-> -1, nowShift |-> 0] }

TimeClocks ==
    { [year |-> d.year, month |-> d.month, date |-> d.date,
       midnightShift |-> z.midnightShift, nowShift |-> z.nowShift] :
          d \in Todays, z \in ZoneShifts }

TimeInit ==
    /\ query \in TimeQueries(MaxParts)
    /\ existingArgs = EmptyObject
    /\ clock \in TimeClocks
    /\ done = {}
    /\ enhancedArgs = EmptyObject
    /\ upperArgs = EmptyObject
    /\ serverArgs = EmptyObject
    /\ BesideParserIdle

\* either parser reads the query
TimeNext ==
    \/ ParseQuery
    \/ ServerParseQuery

TimeSpec == TimeInit /\ [][TimeNext]_vars

\* Malformed inputs: the strings of the test 'handles malformed inputs
\* gracefully', punctuation, lone signs and words, a zero and a huge number;
\* a query is up to MaxParts of them separated by a space.
MalformedPhrases ==
    << <<"l","a","s","t"," ","t","r","a","n","s","a","c","t","i","o","n","s"," ","5">>,
       <<"o","v","e","r"," ","$">>,
       <<"c","h","a","r","g","e","s"," ","f","r","o","m">>,
       <<"$","$","$","$">>,
       <<"l","a","s","t"," ","-","5"," ","t","r","a","n","s","a","c","t","i","o","n","s">>,
       <<"!","?",".",",",";",":">>,
       <<"l","a","s","t"," ","0">>,
       <<"@">>,
       <<"e","x","a","c","t","l","y">>,
       <<"l","a","s","t"," ","1","2","3","4","5","6","7","8","9">> >>

RECURSIVE MalformedQueries(_)
MalformedQueries(n) ==
    IF n = 0 THEN {<<>>}
    ELSE MalformedQueries(n - 1) \cup
         {IF q = <<>> THEN MalformedPhrases[p] ELSE q \o <<" ">> \o MalformedPhrases[p] :
              q \in MalformedQueries(n - 1), p \in DOMAIN MalformedPhrases}

MalformedInit ==
    /\ query \in MalformedQueries(MaxParts)
    /\ existingArgs = EmptyObject
    /\ clock \in Clocks
    /\ done = {}
    /\ enhancedArgs = EmptyObject
    /\ upperArgs = EmptyObject
    /\ serverArgs = EmptyObject
    /\ BesideParserIdle

MalformedSpec == MalformedInit /\ [][TimeNext]_vars

----------------------------------------------------------------------------
(* The response formatters.  A number is Number(c) for c hundredths of a   *)
(* dollar, or NaN; a record is an object whose absent fields are absent    *)
(* keys; a date field is the calendar date its ISO text names.             *)

\* U+1F4B3 CREDIT CARD, U+1F4B0 MONEY BAG, U+1F9E0 BRAIN: two UTF-16 code
\* units each in a JavaScript string; U+2022 BULLET: one
CreditCard == <<"U+D83D", "U+DCB3">>

MoneyBag == <<"U+D83D", "U+DCB0">>

Brain == <<"U+D83E", "U+DDE0">>

Bullet == <<"U+2022">>

\* the result of arithmetic on undefined
NaN == <<0, 0>>

isNaN(x) == Len(x) = 2

\* obj[key] when obj has it (obj?.key on an absent obj reads an object
\* without fields)
Sub(obj, key) == IF has(obj, key) THEN obj[key] ELSE EmptyObject

\* obj.key || fallback, for a text field
OrElse(obj, key, fallback) ==
    IF has(obj, key) /\ obj[key] # <<>> THEN obj[key] ELSE fallback

\* `${obj.key}` in a template literal
Interpolate(obj, key) == IF has(obj, key) THEN obj[key] ELSE <<"u","n","d","e","f","i","n","e","d">>

\* obj.key || 0, for a numeric field
OrZero(obj, key) == IF has(obj, key) THEN Number(obj[key]) ELSE Number(0)

\* Math.abs(obj.key)
MathAbs(obj, key) ==
    IF ~has(obj, key) THEN NaN
    ELSE IF obj[key] < 0 THEN Number(0 - obj[key]) ELSE Number(obj[key])

\* a + b
Plus(a, b) == IF isNaN(a) \/ isNaN(b) THEN NaN ELSE Number(a[1] + b[1])

\* obj.key < 0
IsNegative(obj, key) == has(obj, key) /\ obj[key] < 0

\* the integer part in groups of three digits
RECURSIVE Grouped(_)
Grouped(n) ==
    IF n < 1000 THEN toString(n)
    ELSE Grouped(n \div 1000) \o <<",">> \o padStart(toString(n % 1000), 3)

\* Number.prototype.toLocaleString() in the en-US locale: grouped integer
\* digits and the fraction digits without trailing zeros
toLocaleString(x) ==
    IF isNaN(x) THEN <<"N","a","N">>
    ELSE LET a == IF x[1] < 0 THEN 0 - x[1] ELSE x[1]
             cents == a % 100
         IN  (IF x[1] < 0 THEN <<"-">> ELSE <<>>) \o Grouped(a \div 100) \o
             (IF cents = 0 THEN <<>>
              ELSE IF cents % 10 = 0 THEN <<".">> \o toString(cents \div 10)
              ELSE <<".">> \o padStart(toString(cents), 2))

\* the local calendar date of the UTC midnight that an ISO date names: the
\* day before it west of UTC
LocalDateOf(d, now) == IF now.nowShift > 0 THEN PrevDay(d) ELSE d

\* Date.prototype.toLocaleDateString() in the en-US locale
formatDate(d) ==
    toString(d.month) \o <<"/">> \o toString(d.date) \o <<"/">> \o toString(d.year)

\* new Date(obj.key).toLocaleDateString() for an ISO date without a time
toLocaleDateString(obj, key, now) ==
    IF ~has(obj, key) THEN <<"I","n","v","a","l","i","d"," ","D","a","t","e">>
    ELSE formatDate(LocalDateOf(obj[key], now))

\* Array.prototype.join
RECURSIVE join(_, _)
join(texts, separator) ==
    IF texts = <<>> THEN <<>>
    ELSE IF Len(texts) = 1 THEN texts[1]
    ELSE texts[1] \o separator \o join(Tail(texts), separator)

(* OptimizedResponseFormatter *)

\* accounts.reduce((sum, acc) => sum + (acc.currentBalance || 0), 0)
RECURSIVE TotalBalance(_)
TotalBalance(accts) ==
    IF Len(accts) = 0 THEN Number(0)
    ELSE Plus(TotalBalance(SubSeq(accts, 1, Len(accts) - 1)),
              OrZero(accts[Len(accts)], "currentBalance"))

\* acc.type?.display || acc.type?.name
AccountType(acc) ==
    LET type == Sub(acc, "type")
    IN  IF has(type, "display") /\ type.display # <<>> THEN type.display
        ELSE Interpolate(type, "name")

LightAccount(acc) ==
    Bullet \o <<" ">> \o Interpolate(acc, "displayName") \o <<":"," ","$">> \o
    toLocaleString(OrZero(acc, "currentBalance")) \o
    (IF has(acc, "isHidden") /\ acc.isHidden THEN <<" ","(","h","i","d","d","e","n",")">> ELSE <<>>)

\* updatedAt is an instant at noon UTC: the same calendar date in either zone
StandardAccount(acc, now) ==
    Bullet \o <<" ","*","*">> \o Interpolate(acc, "displayName") \o <<"*","*","\n">> \o
    <<" "," ","T","y","p","e",":"," ">> \o AccountType(acc) \o <<"\n">> \o
    <<" "," ","B","a","l","a","n","c","e",":"," ","$">> \o toLocaleString(OrZero(acc, "currentBalance")) \o <<"\n">> \o
    <<" "," ","I","n","s","t","i","t","u","t","i","o","n",":"," ">> \o OrElse(Sub(acc, "institution"), "name", <<"M","a","n","u","a","l">>) \o <<"\n">> \o
    <<" "," ","U","p","d","a","t","e","d",":"," ">> \o
    (IF has(acc, "updatedAt") THEN formatDate(acc.updatedAt)
     ELSE <<"U","n","k","n","o","w","n">>)

formatAccounts(accts, verbosity, now) ==
    IF verbosity = <<"u","l","t","r","a","-","l","i","g","h","t">>
    THEN MoneyBag \o <<" ">> \o toString(Len(accts)) \o <<" ","a","c","c","o","u","n","t","s",","," ","T","o","t","a","l",":"," ","$">> \o
         toLocaleString(TotalBalance(accts))
    ELSE IF verbosity = <<"l","i","g","h","t">>
    THEN join([i \in DOMAIN accts |-> LightAccount(accts[i])], <<"\n">>) \o
         <<"\n","\n","T","o","t","a","l",":"," ","$">> \o toLocaleString(TotalBalance(accts))
    ELSE join([i \in DOMAIN accts |-> StandardAccount(accts[i], now)], <<"\n","\n">>) \o
         <<"\n","\n","*","*","T","o","t","a","l"," ","B","a","l","a","n","c","e",":"," ","$">> \o toLocaleString(TotalBalance(accts)) \o <<"*","*">>

\* transactions.reduce((sum, txn) => sum + Math.abs(txn.amount), 0)
RECURSIVE Volume(_)
Volume(txns) ==
    IF Len(txns) = 0 THEN Number(0)
    ELSE Plus(Volume(SubSeq(txns, 1, Len(txns) - 1)),
              MathAbs(txns[Len(txns)], "amount"))

\* the annotation without the query in it
SmartQueryHeader_NoQuery(originalQuery) ==
    Brain \o <<" ","*","*","S","m","a","r","t"," ","Q","u","e","r","y","*","*","\n","\n">>

\* `🧠 **Smart Query**: "${originalQuery}"\n\n`
SmartQueryHeader(originalQuery) ==
    Brain \o <<" ","*","*","S","m","a","r","t"," ","Q","u","e","r","y","*","*",":"," ","\"">> \o originalQuery \o <<"\"","\n","\n">>

\* txn.amount < 0 ? '-' : ''
MinusSign(txn) == IF IsNegative(txn, "amount") THEN <<"-">> ELSE <<>>

LightTransaction(txn, now) ==
    Bullet \o <<" ">> \o toLocaleDateString(txn, "date", now) \o <<" ","-"," ">> \o
    OrElse(Sub(txn, "merchant"), "name", <<"U","n","k","n","o","w","n"," ","m","e","r","c","h","a","n","t">>) \o <<"\n"," "," ">> \o
    MinusSign(txn) \o <<"$">> \o toLocaleString(MathAbs(txn, "amount")) \o
    <<" ">> \o Bullet \o <<" ">> \o
    OrElse(Sub(txn, "category"), "name", <<"U","n","c","a","t","e","g","o","r","i","z","e","d">>)

\* a one-line record in place of the four-line one
StandardTransaction_Terse(txn, now) ==
    Bullet \o <<" ">> \o OrElse(Sub(txn, "merchant"), "name", <<"U","n","k","n","o","w","n"," ","m","e","r","c","h","a","n","t">>)

StandardTransaction(txn, now) ==
    LET account == Sub(txn, "account")
    IN  Bullet \o <<" ">> \o toLocaleDateString(txn, "date", now) \o <<" ","-"," ","*","*">> \o
        OrElse(Sub(txn, "merchant"), "name", <<"U","n","k","n","o","w","n"," ","m","e","r","c","h","a","n","t">>) \o <<"*","*","\n">> \o
        <<" "," ","A","m","o","u","n","t",":"," ">> \o MinusSign(txn) \o <<"$">> \o
        toLocaleString(MathAbs(txn, "amount")) \o <<"\n">> \o
        <<" "," ","C","a","t","e","g","o","r","y",":"," ">> \o
        OrElse(Sub(txn, "category"), "name", <<"U","n","c","a","t","e","g","o","r","i","z","e","d">>) \o <<"\n">> \o
        <<" "," ","A","c","c","o","u","n","t",":"," ">> \o Interpolate(account, "displayName") \o
        (IF has(account, "mask") /\ account.mask # <<>>
         THEN <<" ","(",".",".",".">> \o account.mask \o <<")">> ELSE <<>>)

\* the switch on verbosity, reached with a non-empty list
TransactionBody(txns, verbosity, originalQuery, now) ==
    LET header == IF originalQuery # <<>> THEN SmartQueryHeader(originalQuery)
                  ELSE <<>>
    IN  IF verbosity = <<"u","l","t","r","a","-","l","i","g","h","t">>
        THEN header \o CreditCard \o <<" ">> \o toString(Len(txns)) \o
             <<" ","t","r","a","n","s","a","c","t","i","o","n","s",","," ","V","o","l","u","m","e",":"," ","$">> \o toLocaleString(Volume(txns))
        ELSE IF verbosity = <<"l","i","g","h","t">>
        THEN header \o
             join([i \in DOMAIN txns |-> LightTransaction(txns[i], now)], <<"\n">>)
        ELSE header \o CreditCard \o <<" ","*","*","T","r","a","n","s","a","c","t","i","o","n"," ","S","u","m","m","a","r","y","*","*"," ","(">> \o
             toString(Len(txns)) \o <<" ","t","r","a","n","s","a","c","t","i","o","n","s",")","\n","\n">> \o
             join([i \in DOMAIN txns |-> StandardTransaction(txns[i], now)],
                  <<"\n","\n">>) \o
             <<"\n","\n","*","*","T","o","t","a","l"," ","T","r","a","n","s","a","c","t","i","o","n"," ","V","o","l","u","m","e",":"," ","$">> \o
             toLocaleString(Volume(txns)) \o <<"*","*">>

\* an explicit message for the empty list, as for the other record types
formatTransactions_EmptyMessage(txns, verbosity, originalQuery, now) ==
    IF Len(txns) = 0 THEN <<"N","o"," ","t","r","a","n","s","a","c","t","i","o","n","s"," ","f","o","u","n","d",".">>
    ELSE TransactionBody(txns, verbosity, originalQuery, now)

formatTransactions(txns, verbosity, originalQuery, now) ==
    IF Len(txns) = 0 THEN <<>>
    ELSE TransactionBody(txns, verbosity, originalQuery, now)

(* MonarchMcpServer: formatArrayResult and formatTransactions *)

\* Math.abs(txn.amount || 0)
AbsOrZero(txn) ==
    LET amount == OrZero(txn, "amount")[1]
    IN  IF amount < 0 THEN 0 - amount ELSE amount

\* the comparator on the signed amounts
InOrder_Signed(a, b, sortByAmount) ==
    IF sortByAmount = <<"d","e","s","c">> THEN OrZero(a, "amount")[1] >= OrZero(b, "amount")[1]
    ELSE OrZero(a, "amount")[1] <= OrZero(b, "amount")[1]

\* the comparator of processedTransactions.sort: a is to stay before b
InOrder(a, b, sortByAmount) ==
    IF sortByAmount = <<"d","e","s","c">> THEN AbsOrZero(a) >= AbsOrZero(b)
    ELSE AbsOrZero(a) <= AbsOrZero(b)

\* txn put behind the last record of the sorted list that may stay before it
RECURSIVE Insert(_, _, _)
Insert(sorted, txn, sortByAmount) ==
    IF Len(sorted) = 0 THEN <<txn>>
    ELSE IF InOrder(sorted[Len(sorted)], txn, sortByAmount)
    THEN Append(sorted, txn)
    ELSE Append(Insert(SubSeq(sorted, 1, Len(sorted) - 1), txn, sortByAmount),
                sorted[Len(sorted)])

\* Array.prototype.sort with that comparator (a stable sort)
RECURSIVE sort(_, _)
sort(txns, sortByAmount) ==
    IF Len(txns) = 0 THEN <<>>
    ELSE Insert(sort(SubSeq(txns, 1, Len(txns) - 1), sortByAmount),
                txns[Len(txns)], sortByAmount)

\* totalAmount after the forEach
RECURSIVE totalAmount(_)
totalAmount(txns) ==
    IF Len(txns) = 0 THEN 0
    ELSE totalAmount(SubSeq(txns, 1, Len(txns) - 1)) + AbsOrZero(txns[Len(txns)])

DetailedCap == 25

SummaryCap == 20

\* Math.min
MathMin(a, b) == IF a < b THEN a ELSE b

\* the lines both the summary and the detailed format give a record
ServerTransaction(txn, index, sortByAmount, now) ==
    (IF sortByAmount # <<>> THEN toString(index) \o <<"."," ">> ELSE Bullet \o <<" ">>) \o
    (IF has(txn, "date") THEN toLocaleDateString(txn, "date", now)
     ELSE <<"U","n","k","n","o","w","n"," ","d","a","t","e">>) \o <<" ","-"," ","*","*">> \o
    (IF has(txn, "merchantName") /\ txn.merchantName # <<>> THEN txn.merchantName
     ELSE OrElse(txn, "description", <<"U","n","k","n","o","w","n"," ","m","e","r","c","h","a","n","t">>)) \o <<"*","*","\n">> \o
    <<" "," ","A","m","o","u","n","t",":"," ">> \o
    (IF OrZero(txn, "amount")[1] >= 0 THEN <<"+">> ELSE <<"-">>) \o <<"$">> \o
    toLocaleString(Number(AbsOrZero(txn))) \o <<"\n">> \o
    <<" "," ","C","a","t","e","g","o","r","y",":"," ">> \o OrElse(Sub(txn, "category"), "name", <<"U","n","c","a","t","e","g","o","r","i","z","e","d">>) \o
    <<"\n">> \o
    <<" "," ","A","c","c","o","u","n","t",":"," ">> \o OrElse(Sub(txn, "account"), "displayName", <<"U","n","k","n","o","w","n">>)

\* the two lines the detailed format adds
ServerTransactionDetail(txn) ==
    <<"\n"," "," ","I","D",":"," ">> \o OrElse(txn, "id", <<"N","/","A">>) \o <<"\n"," "," ">> \o
    (IF has(txn, "notes") /\ txn.notes # <<>> THEN <<"N","o","t","e","s",":"," ">> \o txn.notes
     ELSE <<>>)

\* the header, the first `cap` records, the count of the rest and the total
ServerListing(processed, cap, detailed, sortByAmount, now) ==
    LET displayCount == MathMin(cap, Len(processed))
    IN  CreditCard \o <<" ","*","*","T","r","a","n","s","a","c","t","i","o","n"," ","S","u","m","m","a","r","y","*","*"," ","(">> \o toString(Len(processed)) \o
        <<" ","t","r","a","n","s","a","c","t","i","o","n","s",")","\n","\n">> \o
        join([i \in 1..displayCount |->
                 ServerTransaction(processed[i], i, sortByAmount, now) \o
                 (IF detailed THEN ServerTransactionDetail(processed[i]) ELSE <<>>)],
             <<"\n","\n">>) \o
        (IF Len(processed) > displayCount
         THEN <<"\n","\n",".",".","."," ","a","n","d"," ">> \o toString(Len(processed) - displayCount) \o
              <<" ","m","o","r","e"," ","t","r","a","n","s","a","c","t","i","o","n","s">>
         ELSE <<>>) \o
        <<"\n","\n","*","*","T","o","t","a","l"," ","T","r","a","n","s","a","c","t","i","o","n"," ","V","o","l","u","m","e",":"," ","$">> \o
        toLocaleString(Number(totalAmount(processed))) \o <<"*","*">>

\* originalArgs is [verbosity, _sortByAmount], either may be undefined
MonarchMcpServer_formatTransactions(txns, originalArgs, now) ==
    LET verbosity == OrElse(originalArgs, "verbosity", <<"s","u","m","m","a","r","y">>)
        sortByAmount == OrElse(originalArgs, "_sortByAmount", <<>>)
        processedTransactions ==
            IF sortByAmount # <<>> THEN sort(txns, sortByAmount) ELSE txns
    IN  IF verbosity = <<"b","r","i","e","f">>
        THEN CreditCard \o <<" ">> \o toString(Len(processedTransactions)) \o
             <<" ","t","r","a","n","s","a","c","t","i","o","n","s",","," ","T","o","t","a","l",":"," ","$">> \o
             toLocaleString(Number(totalAmount(processedTransactions)))
        ELSE IF verbosity = <<"d","e","t","a","i","l","e","d">>
        THEN ServerListing(processedTransactions, DetailedCap, TRUE, sortByAmount, now)
        ELSE ServerListing(processedTransactions, SummaryCap, FALSE, sortByAmount, now)

\* toolName.replace(/.*_/, ''): what follows the last underscore
RECURSIVE AfterLastUnderscore(_)
AfterLastUnderscore(toolName) ==
    IF \A i \in DOMAIN toolName : toolName[i] # "_" THEN toolName
    ELSE AfterLastUnderscore(Tail(toolName))

\* formatArrayResult for a transaction tool; data carries _originalQuery and
\* _smartQueryArgs, and the caller's arguments override the latter
formatArrayResult(toolName, data, originalQuery, smartQueryArgs, originalArgs, now) ==
    IF Len(data) = 0
    THEN <<"N","o"," ">> \o AfterLastUnderscore(toolName) \o <<" ","f","o","u","n","d",".">>
    ELSE LET smartArgs ==
                 [k \in DOMAIN smartQueryArgs \cup DOMAIN originalArgs |->
                     IF has(originalArgs, k) THEN originalArgs[k]
                     ELSE smartQueryArgs[k]]
             text == MonarchMcpServer_formatTransactions(data, smartArgs, now)
         IN  IF originalQuery # <<>>
             THEN Brain \o <<" ","*","*","S","m","a","r","t"," ","Q","u","e","r","y","*","*",":"," ","\"">> \o originalQuery \o <<"\"","\n","\n">> \o text
             ELSE text

----------------------------------------------------------------------------
(* The formatters' inputs: record lists of up to MaxRecords records drawn  *)
(* from the fixtures of the tests, and long lists that repeat them.        *)

MaxRecords == 2

\* the two mockTransactions of the formatter tests, a deposit and a record
\* with short texts and no account
TransactionPool ==
    << [id |-> <<"1">>, amount |-> -4567,
        date |-> [year |-> 2024, month |-> 1, date |-> 15],
        merchant |-> [name |-> <<"A","m","a","z","o","n">>], category |-> [name |-> <<"S","h","o","p","p","i","n","g">>],
        account |-> [displayName |-> <<"C","h","a","s","e"," ","C","h","e","c","k","i","n","g">>, mask |-> <<"1","2","3","4">>]],
       [id |-> <<"2">>, amount |-> -1234,
        date |-> [year |-> 2024, month |-> 1, date |-> 14],
        merchant |-> [name |-> <<"S","t","a","r","b","u","c","k","s">>], category |-> [name |-> <<"D","i","n","i","n","g">>],
        account |-> [displayName |-> <<"C","h","a","s","e"," ","C","h","e","c","k","i","n","g">>, mask |-> <<"1","2","3","4">>]],
       [id |-> <<"3">>, amount |-> 250000,
        date |-> [year |-> 2024, month |-> 1, date |-> 1],
        merchantName |-> <<"E","m","p","l","o","y","e","r">>, notes |-> <<"s","a","l","a","r","y">>,
        account |-> [displayName |-> <<"S","a","v","i","n","g","s"," ","A","c","c","o","u","n","t">>]],
       [amount |-> -500,
        date |-> [year |-> 2024, month |-> 2, date |-> 3],
        merchant |-> [name |-> <<"B","P">>], category |-> [name |-> <<"G","a","s">>]] >>

\* the two mockAccounts (the second one hidden), the incomplete account of
\* 'handles accounts with missing data' and a small cash account
AccountPool ==
    << [id |-> <<"1">>, displayName |-> <<"C","h","a","s","e"," ","C","h","e","c","k","i","n","g">>, currentBalance |-> 523456,
        type |-> [name |-> <<"c","h","e","c","k","i","n","g">>, display |-> <<"C","h","e","c","k","i","n","g">>],
        institution |-> [name |-> <<"C","h","a","s","e">>], isHidden |-> FALSE,
        updatedAt |-> [year |-> 2024, month |-> 1, date |-> 1]],
       [id |-> <<"2">>, displayName |-> <<"S","a","v","i","n","g","s"," ","A","c","c","o","u","n","t">>, currentBalance |-> 1567890,
        type |-> [name |-> <<"s","a","v","i","n","g","s">>, display |-> <<"S","a","v","i","n","g","s">>],
        institution |-> [name |-> <<"W","e","l","l","s"," ","F","a","r","g","o">>], isHidden |-> TRUE,
        updatedAt |-> [year |-> 2024, month |-> 1, date |-> 1]],
       [id |-> <<"1">>, displayName |-> <<"T","e","s","t"," ","A","c","c","o","u","n","t">>],
       [id |-> <<"4">>, displayName |-> <<"C","a","s","h">>, currentBalance |-> 500] >>

\* the lists of at most n records of a pool
RECURSIVE Lists(_, _)
Lists(pool, n) ==
    IF n = 0 THEN {<<>>}
    ELSE Lists(pool, n - 1) \cup
         {Append(l, pool[p]) : l \in Lists(pool, n - 1), p \in DOMAIN pool}

\* n records: the pool over and over
Repeated(pool, n) == [i \in 1..n |-> pool[((i - 1) % Len(pool)) + 1]]

\* one record more than the summary format shows, and than the detailed one
LongTransactionLists ==
    {Repeated(TransactionPool, SummaryCap + 1), Repeated(TransactionPool, DetailedCap + 1)}

\* ten accounts, as in 'different verbosity levels produce different response
\* sizes'
LongAccountLists == {Repeated(AccountPool, 10)}

VerbosityLevels == {<<"u","l","t","r","a","-","l","i","g","h","t">>, <<"l","i","g","h","t">>, <<"s","t","a","n","d","a","r","d">>}

ServerVerbosityLevels == {<<"b","r","i","e","f">>, <<"s","u","m","m","a","r","y">>, <<"d","e","t","a","i","l","e","d">>}

\* no query, the query of the formatter tests and a query of two lines
OriginalQueries ==
    {<<>>,
     <<"l","a","s","t"," ","2"," ","A","m","a","z","o","n"," ","c","h","a","r","g","e","s">>,
     <<"l","a","r","g","e","s","t","\n","c","h","a","r","g","e","s">>}

SortDirections == {<<>>, <<"d","e","s","c">>, <<"a","s","c">>}

FormatTransactionsName == "OptimizedResponseFormatter.formatTransactions"

FormatAccountsName == "OptimizedResponseFormatter.formatAccounts"

FormatArrayResultName == "MonarchMcpServer.formatArrayResult"

TransactionCalls ==
    [formatter : {FormatTransactionsName}, verbosity : VerbosityLevels,
     originalQuery : OriginalQueries, sortByAmount : {<<>>}]

AccountCalls ==
    [formatter : {FormatAccountsName}, verbosity : VerbosityLevels,
     originalQuery : {<<>>}, sortByAmount : {<<>>}]

ServerCalls ==
    [formatter : {FormatArrayResultName}, verbosity : ServerVerbosityLevels,
     originalQuery : OriginalQueries, sortByAmount : SortDirections]

\* the calls made on one record set and then compared
MaxCalls == 2

\* the formatting instants: in UTC, and west of it
FormatClocks ==
    { [year |-> 2025, month |-> 1, date |-> 31, midnightShift |-> 0, nowShift |-> 0],
      [year |-> 2025, month |-> 1, date |-> 31, midnightShift |-> 0, nowShift |-> 1] }

FormatInit ==
    /\ BesideFormatterIdle
    /\ clock \in FormatClocks
    /\ \/ /\ transactions \in Lists(TransactionPool, MaxRecords) \cup LongTransactionLists
          /\ accounts = <<>>
       \/ /\ transactions = <<>>
          /\ accounts \in Lists(AccountPool, MaxRecords) \cup LongAccountLists
    /\ formatted = EmptyObject

\* OptimizedResponseFormatter.formatTransactions(transactions, verbosity, originalQuery)
FormatTransactions ==
    \E call \in TransactionCalls :
        /\ call \notin DOMAIN formatted
        /\ Cardinality(DOMAIN formatted) < MaxCalls
        /\ formatted' = Put(formatted, call,
               formatTransactions(transactions, call.verbosity, call.originalQuery, clock))
        /\ UNCHANGED <<transactions, accounts>>
        /\ UNCHANGED besideFormatter

\* OptimizedResponseFormatter.formatAccounts(accounts, verbosity)
FormatAccounts ==
    \E call \in AccountCalls :
        /\ call \notin DOMAIN formatted
        /\ Cardinality(DOMAIN formatted) < MaxCalls
        /\ formatted' = Put(formatted, call,
               formatAccounts(accounts, call.verbosity, clock))
        /\ UNCHANGED <<transactions, accounts>>
        /\ UNCHANGED besideFormatter

\* this.formatArrayResult('transactions_smartQuery', transactions, { verbosity })
\* with transactions._originalQuery and transactions._smartQueryArgs set
ServerFormatArrayResult ==
    \E call \in ServerCalls :
        /\ call \notin DOMAIN formatted
        /\ Cardinality(DOMAIN formatted) < MaxCalls
        /\ formatted' = Put(formatted, call,
               formatArrayResult(<<"t","r","a","n","s","a","c","t","i","o","n","s","_","s","m","a","r","t","Q","u","e","r","y">>, transactions,
                   call.originalQuery,
                   IF call.sortByAmount = <<>> THEN EmptyObject
                   ELSE [_sortByAmount |-> call.sortByAmount],
                   [verbosity |-> call.verbosity], clock))
        /\ UNCHANGED <<transactions, accounts>>
        /\ UNCHANGED besideFormatter

FormatNext ==
    \/ FormatTransactions
    \/ FormatAccounts
    \/ ServerFormatArrayResult

FormatSpec == FormatInit /\ [][FormatNext]_vars

----------------------------------------------------------------------------
(* The choice of a verbosity level from the estimated size of a response *)

RESPONSE_SIZE_ESTIMATES ==
    [level \in {"ultra-light", "light", "standard"} |->
        IF level = "ultra-light"
        THEN [accounts |-> 60, transactions |-> 80, categories |-> 40, budgets |-> 50]
        ELSE IF level = "light"
        THEN [accounts |-> 180, transactions |-> 220, categories |-> 80, budgets |-> 120]
        ELSE [accounts |-> 800, transactions |-> 600, categories |-> 200, budgets |-> 300]]

\* maxResponseSize: number = 5000
DefaultMaxResponseSize == 5000

\* the same with < in place of <=
calculateOptimalVerbosity_Strict(dataType, itemCount, maxResponseSize) ==
    LET estimates == RESPONSE_SIZE_ESTIMATES
        lightSize == estimates["light"][dataType] * itemCount
        standardSize == estimates["standard"][dataType] * itemCount
    IN  IF standardSize < maxResponseSize THEN <<"s","t","a","n","d","a","r","d">>
        ELSE IF lightSize < maxResponseSize THEN <<"l","i","g","h","t">>
        ELSE <<"u","l","t","r","a","-","l","i","g","h","t">>

calculateOptimalVerbosity(dataType, itemCount, maxResponseSize) ==
    LET estimates == RESPONSE_SIZE_ESTIMATES
        ultraLightSize == estimates["ultra-light"][dataType] * itemCount
        lightSize == estimates["light"][dataType] * itemCount
        standardSize == estimates["standard"][dataType] * itemCount
    IN  IF standardSize <= maxResponseSize THEN <<"s","t","a","n","d","a","r","d">>
        ELSE IF lightSize <= maxResponseSize THEN <<"l","i","g","h","t">>
        ELSE <<"u","l","t","r","a","-","l","i","g","h","t">>

\* the record types that have estimates
DataTypes == {"accounts", "transactions", "categories", "budgets"}

MaxItemCount == 30

\* the limits of the test 'calculateOptimalVerbosity selects correct level
\* for different sizes', limits that an estimate meets exactly, and limits
\* that only a few items of the tersest level fit
MaxResponseSizes == {0, 60, 600, 2000, 3600, 4000, 5000, 10000}

\* the call, with or without its third argument
Sizings ==
    [dataType : DataTypes, itemCount : 0..MaxItemCount,
     maxResponseSize : MaxResponseSizes] \cup
    [dataType : DataTypes, itemCount : 0..MaxItemCount]

SizingInit ==
    /\ BesideSizingIdle
    /\ clock \in Clocks
    /\ sizing \in Sizings
    /\ optimal = <<>>

\* calculateOptimalVerbosity(dataType, itemCount, maxResponseSize)
CalculateOptimalVerbosity ==
    /\ optimal = <<>>
    /\ optimal' = calculateOptimalVerbosity(sizing.dataType, sizing.itemCount,
                      IF has(sizing, "maxResponseSize") THEN sizing.maxResponseSize
                      ELSE DefaultMaxResponseSize)
    /\ UNCHANGED sizing
    /\ UNCHANGED besideSizing

SizingNext == CalculateOptimalVerbosity

SizingSpec == SizingInit /\ [][SizingNext]_vars

----------------------------------------------------------------------------
(* Incomplete records: the formatters on records with absent fields *)

\* a record with nothing but an amount, one without an amount, one with
\* nothing but an id, and the first of the mockTransactions
IncompleteTransactionPool ==
    << [id |-> <<"1">>, amount |-> -4567,
        date |-> [year |-> 2024, month |-> 1, date |-> 15]],
       [id |-> <<"2">>, date |-> [year |-> 2024, month |-> 1, date |-> 14],
        merchant |-> [name |-> <<"S","t","a","r","b","u","c","k","s">>], merchantName |-> <<"S","t","a","r","b","u","c","k","s">>,
        category |-> [name |-> <<"D","i","n","i","n","g">>],
        account |-> [displayName |-> <<"C","h","a","s","e"," ","C","h","e","c","k","i","n","g">>, mask |-> <<"1","2","3","4">>]],
       [id |-> <<"3">>],
       TransactionPool[1] >>

\* the account of 'handles accounts with missing data' and the first of the
\* mockAccounts
IncompleteAccountPool == <<AccountPool[3], AccountPool[1]>>

IncompleteInit ==
    /\ BesideFormatterIdle
    /\ clock \in FormatClocks
    /\ \/ /\ transactions \in Lists(IncompleteTransactionPool, MaxRecords)
          /\ accounts = <<>>
       \/ /\ transactions = <<>>
          /\ accounts \in Lists(IncompleteAccountPool, MaxRecords)
    /\ formatted = EmptyObject

IncompleteSpec == IncompleteInit /\ [][FormatNext]_vars

----------------------------------------------------------------------------
(* The smart query: the text is parsed, the transactions the SDK returns   *)
(* for it carry the parsed arguments and the text, and are formatted.      *)

\* the sort words, in lower and in upper case, and phrases without one
SortPhrases ==
    << <<"l","a","r","g","e","s","t"," ">>, <<"B","i","g","g","e","s","t"," ">>, <<"H","I","G","H","E","S","T"," ">>, <<"s","m","a","l","l","e","s","t"," ">>, <<"L","o","w","e","s","t"," ">>,
       <<"l","a","s","t"," ","5"," ">>, <<"A","m","a","z","o","n"," ","c","h","a","r","g","e","s"," ">> >>

RECURSIVE SortQueries(_)
SortQueries(n) ==
    IF n = 0 THEN {<<>>}
    ELSE SortQueries(n - 1) \cup
         {q \o SortPhrases[p] : q \in SortQueries(n - 1), p \in DOMAIN SortPhrases}

SmartQueryInit ==
    /\ query \in SortQueries(MaxParts) \ {<<>>}
    /\ existingArgs = EmptyObject
    /\ clock \in Clocks
    /\ done = {}
    /\ enhancedArgs = EmptyObject
    /\ upperArgs = EmptyObject
    /\ serverArgs = EmptyObject
    /\ transactions \in Lists(TransactionPool, MaxRecords) \cup LongTransactionLists
    /\ accounts = <<>>
    /\ formatted = EmptyObject
    /\ BesideParserAndFormatterIdle

\* handleSmartTransactionQuery(args.query) up to its await: the text is parsed
\* and the SDK is asked for the transactions
HandleSmartTransactionQuery ==
    /\ done = {}
    /\ serverArgs' = MonarchMcpServer_parseNaturalLanguageQuery(query, clock)
    /\ done' = {"smartQuery"}
    /\ UNCHANGED <<query, existingArgs, clock, enhancedArgs, upperArgs>>
    /\ UNCHANGED besideParser

\* the SDK has answered with `transactions`, which now carry _smartQueryArgs
\* and _originalQuery: formatResult(name, result, args) formats them with the
\* caller's arguments (the query and a verbosity, or none)
FormatResult ==
    /\ done = {"smartQuery"}
    /\ \E verbosity \in ServerVerbosityLevels \cup {<<>>} :
           LET call == [formatter |-> FormatArrayResultName, verbosity |-> verbosity,
                        originalQuery |-> query,
                        sortByAmount |-> OrElse(serverArgs, "_sortByAmount", <<>>)]
           IN  /\ call \notin DOMAIN formatted
               /\ Cardinality(DOMAIN formatted) < MaxCalls
               /\ formatted' = Put(formatted, call,
                      formatArrayResult(<<"t","r","a","n","s","a","c","t","i","o","n","s","_","s","m","a","r","t","Q","u","e","r","y">>, transactions,
                          query, serverArgs,
                          IF verbosity = <<>> THEN [query |-> query]
                          ELSE [query |-> query, verbosity |-> verbosity],
                          clock))
    /\ UNCHANGED <<transactions, accounts>>
    /\ UNCHANGED besideFormatter

SmartQueryNext ==
    \/ HandleSmartTransactionQuery
    \/ FormatResult

SmartQuerySpec == SmartQueryInit /\ [][SmartQueryNext]_vars

----------------------------------------------------------------------------
(* The server's category and budget listings                               *)

Label == <<"U+D83C", "U+DFF7", "U+FE0F">>

CategoryCap == 15

BudgetCap == 10

\* `• **${cat.name}** ${cat.group ? `(${cat.group.name})` : ''}`
CategoryLine(cat) ==
    Bullet \o <<" ","*","*">> \o Interpolate(cat, "name") \o <<"*","*"," ">> \o
    (IF has(cat, "group") THEN <<"(">> \o Interpolate(cat.group, "name") \o <<")">> ELSE <<>>)

\* the summary listing that forgets to say how many records it left out
formatCategories_Silent(cats, verbosity) ==
    Label \o <<" ","*","*","C","a","t","e","g","o","r","i","e","s","*","*"," ","(">> \o toString(Len(cats)) \o <<" ","t","o","t","a","l",")","\n","\n">> \o
    join([i \in 1..MathMin(CategoryCap, Len(cats)) |-> CategoryLine(cats[i])], <<"\n">>)

formatCategories(cats, verbosity) ==
    IF verbosity = <<"b","r","i","e","f">>
    THEN Label \o <<" ">> \o toString(Len(cats)) \o <<" ","c","a","t","e","g","o","r","i","e","s">>
    ELSE IF verbosity = <<"d","e","t","a","i","l","e","d">>
    THEN Label \o <<" ","*","*","C","a","t","e","g","o","r","i","e","s","*","*"," ","(">> \o toString(Len(cats)) \o <<" ","t","o","t","a","l",")","\n","\n">> \o
         join([i \in 1..Len(cats) |->
                  CategoryLine(cats[i]) \o <<"\n"," "," ","I","D",":"," ">> \o OrElse(cats[i], "id", <<"N","/","A">>)],
              <<"\n","\n">>)
    ELSE Label \o <<" ","*","*","C","a","t","e","g","o","r","i","e","s","*","*"," ","(">> \o toString(Len(cats)) \o <<" ","t","o","t","a","l",")","\n","\n">> \o
         join([i \in 1..MathMin(CategoryCap, Len(cats)) |-> CategoryLine(cats[i])], <<"\n">>) \o
         (IF Len(cats) > CategoryCap
          THEN <<"\n",".",".","."," ","a","n","d"," ">> \o toString(Len(cats) - CategoryCap) \o <<" ","m","o","r","e"," ","c","a","t","e","g","o","r","i","e","s">>
          ELSE <<>>)

\* budget[first] || budget[second] || 0, in hundredths
EitherOrZero(budget, first, second) ==
    IF has(budget, first) /\ budget[first] # 0 THEN budget[first]
    ELSE IF has(budget, second) /\ budget[second] # 0 THEN budget[second]
    ELSE 0

Spent(budget) == EitherOrZero(budget, "actual", "spent")

Budgeted(budget) == EitherOrZero(budget, "budgeted", "limit")

\* budgeted > 0 ? Math.round((spent / budgeted) * 100) : 0; Math.round takes
\* a half upwards
Percentage(budget) ==
    IF Budgeted(budget) > 0
    THEN (200 * Spent(budget) + Budgeted(budget)) \div (2 * Budgeted(budget))
    ELSE 0

\* a whole number that may be negative, in digits
SignedToString(n) == IF n < 0 THEN <<"-">> \o toString(0 - n) ELSE toString(n)

\* the lines both the summary and the detailed format give a budget
BudgetLines(budget) ==
    Bullet \o <<" ","*","*">> \o OrElse(Sub(budget, "category"), "name", Interpolate(budget, "name")) \o <<"*","*","\n">> \o
    <<" "," ","B","u","d","g","e","t","e","d",":"," ","$">> \o toLocaleString(Number(Budgeted(budget))) \o <<"\n">> \o
    <<" "," ","S","p","e","n","t",":"," ","$">> \o toLocaleString(Number(Spent(budget))) \o <<" ","(">> \o SignedToString(Percentage(budget)) \o <<"%",")","\n">> \o
    <<" "," ","R","e","m","a","i","n","i","n","g",":"," ","$">> \o toLocaleString(Number(Budgeted(budget) - Spent(budget)))

\* Array.prototype.reduce((sum, b) => sum + of[b], 0)
RECURSIVE SumOver(_, _)
SumOver(list, of) ==
    IF Len(list) = 0 THEN 0
    ELSE SumOver(SubSeq(list, 1, Len(list) - 1), of) + of[Len(list)]

formatBudgets(list, verbosity) ==
    IF verbosity = <<"b","r","i","e","f">>
    THEN MoneyBag \o <<" ">> \o toString(Len(list)) \o <<" ","b","u","d","g","e","t"," ","c","a","t","e","g","o","r","i","e","s",","," ","$">> \o
         toLocaleString(Number(SumOver(list, [i \in DOMAIN list |-> Spent(list[i])]))) \o <<"/","$">> \o
         toLocaleString(Number(SumOver(list, [i \in DOMAIN list |-> Budgeted(list[i])]))) \o <<" ","s","p","e","n","t">>
    ELSE IF verbosity = <<"d","e","t","a","i","l","e","d">>
    THEN MoneyBag \o <<" ","*","*","B","u","d","g","e","t"," ","S","u","m","m","a","r","y","*","*"," ","(">> \o toString(Len(list)) \o <<" ","c","a","t","e","g","o","r","i","e","s",")","\n","\n">> \o
         join([i \in 1..Len(list) |->
                  BudgetLines(list[i]) \o <<"\n"," "," ","I","D",":"," ">> \o OrElse(list[i], "id", <<"N","/","A">>)],
              <<"\n","\n">>)
    ELSE MoneyBag \o <<" ","*","*","B","u","d","g","e","t"," ","S","u","m","m","a","r","y","*","*"," ","(">> \o toString(Len(list)) \o <<" ","c","a","t","e","g","o","r","i","e","s",")","\n","\n">> \o
         join([i \in 1..MathMin(BudgetCap, Len(list)) |-> BudgetLines(list[i])], <<"\n","\n">>) \o
         (IF Len(list) > BudgetCap
          THEN <<"\n","\n",".",".","."," ","a","n","d"," ">> \o toString(Len(list) - BudgetCap) \o <<" ","m","o","r","e"," ","b","u","d","g","e","t"," ","c","a","t","e","g","o","r","i","e","s">>
          ELSE <<>>)

\* formatArrayResult for a category or a budget tool
formatCatalogResult(toolName, data, originalArgs) ==
    IF Len(data) = 0
    THEN <<"N","o"," ">> \o AfterLastUnderscore(toolName) \o <<" ","f","o","u","n","d",".">>
    ELSE LET verbosity == OrElse(originalArgs, "verbosity", <<"s","u","m","m","a","r","y">>)
         IN  IF includes(toolName, <<"c","a","t","e","g","o","r","i","e","s">>) THEN formatCategories(data, verbosity)
             ELSE formatBudgets(data, verbosity)   \* toolName.includes('budgets')

\* categories with and without a group, budgets named by their category or
\* by themselves, with and without figures
CategoryPool ==
    << [id |-> <<"c","a","t","1">>, name |-> <<"G","r","o","c","e","r","i","e","s">>, group |-> [name |-> <<"F","o","o","d">>]],
       [name |-> <<"S","h","o","p","p","i","n","g">>] >>

BudgetPool ==
    << [id |-> <<"b","1">>, category |-> [name |-> <<"G","r","o","c","e","r","i","e","s">>], budgeted |-> 50000, actual |-> 32550],
       [name |-> <<"R","e","n","t">>, limit |-> 120000, spent |-> 130000],
       [name |-> <<"M","i","s","c">>] >>

\* up to two records more than the listing shows
Overshoot == 2

ListedTransactions ==
    {Repeated(TransactionPool, n) : n \in {0, 1, SummaryCap - 1, SummaryCap, SummaryCap + 1, SummaryCap + Overshoot}}

ListedCategories == {Repeated(CategoryPool, n) : n \in 0..(CategoryCap + Overshoot)}

ListedBudgets == {Repeated(BudgetPool, n) : n \in 0..(BudgetCap + Overshoot)}

FormatCategoriesName == "MonarchMcpServer.formatCategories"

FormatBudgetsName == "MonarchMcpServer.formatBudgets"

\* the verbosity argument: one of the three levels, or none
VerbosityArguments == ServerVerbosityLevels \cup {<<>>}

\* the result of the SDK call that the handler is about to format
ListingInit ==
    /\ BesideFormatterAndCatalogIdle
    /\ clock \in FormatClocks
    /\ formatted = EmptyObject
    /\ accounts = <<>>
    /\ \/ transactions \in ListedTransactions /\ categories = <<>> /\ budgets = <<>>
       \/ transactions = <<>> /\ categories \in ListedCategories /\ budgets = <<>>
       \/ transactions = <<>> /\ categories = <<>> /\ budgets \in ListedBudgets

\* this.formatArrayResult('categories_getCategories', categories, args)
FormatCategories ==
    \E verbosity \in VerbosityArguments :
        LET call == [formatter |-> FormatCategoriesName, verbosity |-> verbosity,
                     originalQuery |-> <<>>, sortByAmount |-> <<>>]
        IN  /\ call \notin DOMAIN formatted
            /\ Cardinality(DOMAIN formatted) < MaxCalls
            /\ formatted' = Put(formatted, call,
                   formatCatalogResult(<<"c","a","t","e","g","o","r","i","e","s","_","g","e","t","C","a","t","e","g","o","r","i","e","s">>, categories,
                       IF verbosity = <<>> THEN EmptyObject ELSE [verbosity |-> verbosity]))
            /\ UNCHANGED <<transactions, accounts>>
            /\ UNCHANGED besideFormatter

\* this.formatArrayResult('budgets_getBudgets', budgets, args)
FormatBudgets ==
    \E verbosity \in VerbosityArguments :
        LET call == [formatter |-> FormatBudgetsName, verbosity |-> verbosity,
                     originalQuery |-> <<>>, sortByAmount |-> <<>>]
        IN  /\ call \notin DOMAIN formatted
            /\ Cardinality(DOMAIN formatted) < MaxCalls
            /\ formatted' = Put(formatted, call,
                   formatCatalogResult(<<"b","u","d","g","e","t","s","_","g","e","t","B","u","d","g","e","t","s">>, budgets,
                       IF verbosity = <<>> THEN EmptyObject ELSE [verbosity |-> verbosity]))
            /\ UNCHANGED <<transactions, accounts>>
            /\ UNCHANGED besideFormatter

ListingNext ==
    \/ ServerFormatArrayResult
    \/ FormatCategories
    \/ FormatBudgets

ListingSpec == ListingInit /\ [][ListingNext]_vars

----------------------------------------------------------------------------
(* adaptArguments: the parameter list handed to the SDK method              *)

noParamMethods ==
    { <<"a","c","c","o","u","n","t","s","_","g","e","t","A","l","l">>, <<"a","c","c","o","u","n","t","s","_","g","e","t","B","a","l","a","n","c","e","s">>, <<"a","c","c","o","u","n","t","s","_","g","e","t","T","y","p","e","O","p","t","i","o","n","s">>,
      <<"t","r","a","n","s","a","c","t","i","o","n","s","_","g","e","t","T","r","a","n","s","a","c","t","i","o","n","s","S","u","m","m","a","r","y">>, <<"t","r","a","n","s","a","c","t","i","o","n","s","_","g","e","t","T","r","a","n","s","a","c","t","i","o","n","s","S","u","m","m","a","r","y","C","a","r","d">>,
      <<"b","u","d","g","e","t","s","_","g","e","t","B","u","d","g","e","t","s">>, <<"c","a","t","e","g","o","r","i","e","s","_","g","e","t","C","a","t","e","g","o","r","i","e","s">>, <<"c","a","s","h","f","l","o","w","_","g","e","t","C","a","s","h","f","l","o","w","S","u","m","m","a","r","y">>,
      <<"r","e","c","u","r","r","i","n","g","_","g","e","t","R","e","c","u","r","r","i","n","g","S","t","r","e","a","m","s">>, <<"i","n","s","t","i","t","u","t","i","o","n","s","_","g","e","t","I","n","s","t","i","t","u","t","i","o","n","s">>,
      <<"i","n","s","i","g","h","t","s","_","g","e","t","I","n","s","i","g","h","t","s">>, <<"g","e","t","_","m","e">> }

\* a text field that is present and not empty
Truthy(obj, key) == has(obj, key) /\ obj[key] # <<>>

\* obj.key, undefined when obj has none
Field(obj, key) == IF has(obj, key) THEN obj[key] ELSE undefined

\* Object.assign(target, source)
ObjectAssign(target, source) ==
    [k \in DOMAIN target \cup DOMAIN source |->
        IF has(source, k) THEN source[k] ELSE target[k]]

ServerDefaultLimit == 25

ServerMaxLimit == 100

DefaultDays == 30

\* if (transactionArgs.search) Object.assign(transactionArgs,
\*     this.parseNaturalLanguageQuery(transactionArgs.search, transactionArgs))
WithParsedSearch(transactionArgs, now) ==
    IF Truthy(transactionArgs, "search")
    THEN ObjectAssign(transactionArgs,
             MonarchMcpServer_parseNaturalLanguageQuery(transactionArgs.search, now))
    ELSE transactionArgs

\* if (!transactionArgs.limit) transactionArgs.limit = 25
WithDefaultLimit(transactionArgs) ==
    IF has(transactionArgs, "limit") /\ transactionArgs.limit # 0 THEN transactionArgs
    ELSE Put(transactionArgs, "limit", ServerDefaultLimit)

\* if (!transactionArgs.startDate && !transactionArgs.endDate): the last 30
\* days up to now
WithDefaultRange(transactionArgs, now) ==
    IF Truthy(transactionArgs, "startDate") \/ Truthy(transactionArgs, "endDate")
    THEN transactionArgs
    ELSE Put(Put(transactionArgs, "startDate",
                 toISODate(AddDays(LocalDate(now), 0 - DefaultDays), now.nowShift)),
             "endDate", toISODate(LocalDate(now), now.nowShift))

\* the limit passed on as it is
WithCappedLimit_Uncapped(transactionArgs) == transactionArgs

\* if (transactionArgs.limit && transactionArgs.limit > 100) transactionArgs.limit = 100
WithCappedLimit(transactionArgs) ==
    IF transactionArgs.limit > ServerMaxLimit THEN Put(transactionArgs, "limit", ServerMaxLimit)
    ELSE transactionArgs

adaptArguments(toolName, args, now) ==
    IF toolName \in noParamMethods THEN <<>>
    ELSE IF includes(toolName, <<"g","e","t","B","y","I","d">>) \/ includes(toolName, <<"B","y","I","d">>)
    THEN <<Field(args, "id")>>
    ELSE IF includes(toolName, <<"H","i","s","t","o","r","y">>) \/ includes(toolName, <<"N","e","t","W","o","r","t","h">>)
    THEN IF Truthy(args, "startDate") \/ Truthy(args, "endDate")
         THEN <<[startDate |-> Field(args, "startDate"), endDate |-> Field(args, "endDate")]>>
         ELSE <<>>
    ELSE IF includes(toolName, <<"T","r","a","n","s","a","c","t","i","o","n","s">>) \/ includes(toolName, <<"t","r","a","n","s","a","c","t","i","o","n","s","_","g","e","t">>)
    THEN <<WithCappedLimit(WithDefaultRange(WithDefaultLimit(WithParsedSearch(args, now)), now))>>
    ELSE IF includes(toolName, <<"c","r","e","a","t","e">>) \/ includes(toolName, <<"u","p","d","a","t","e">>)
    THEN <<Field(args, "data")>>
    ELSE IF DOMAIN args = {} THEN <<>> ELSE <<args>>

\* tools of every branch of adaptArguments
ToolNames ==
    { <<"t","r","a","n","s","a","c","t","i","o","n","s","_","g","e","t","T","r","a","n","s","a","c","t","i","o","n","s">>, <<"t","r","a","n","s","a","c","t","i","o","n","s","_","g","e","t","T","r","a","n","s","a","c","t","i","o","n","s","S","u","m","m","a","r","y">>,
      <<"t","r","a","n","s","a","c","t","i","o","n","s","_","g","e","t","T","r","a","n","s","a","c","t","i","o","n","B","y","I","d">>, <<"a","c","c","o","u","n","t","s","_","g","e","t","H","i","s","t","o","r","y">>,
      <<"t","r","a","n","s","a","c","t","i","o","n","s","_","c","r","e","a","t","e","T","r","a","n","s","a","c","t","i","o","n">>, <<"c","a","t","e","g","o","r","i","e","s","_","g","e","t","C","a","t","e","g","o","r","y","G","r","o","u","p","s">>,
      <<"g","e","t","T","r","a","n","s","a","c","t","i","o","n","s">> }

\* objs, and each of them with key set to one of values
Optional(objs, key, values) == objs \cup {Put(o, key, v) : o \in objs, v \in values}

\* limits absent, zero, usual, and above the maximum
CallerLimits == {0, 10, ServerMaxLimit, ServerMaxLimit + 1, 500}

\* search texts: empty, with a quantity, with too large a quantity, with a
\* time phrase, with a merchant only
CallerSearches ==
    { <<>>, <<"l","a","s","t"," ","5"," ","a","m","a","z","o","n">>, <<"l","a","s","t"," ","2","0","0"," ","c","h","a","r","g","e","s">>, <<"S","t","a","r","b","u","c","k","s"," ","t","h","i","s"," ","m","o","n","t","h">>,
      <<"c","o","f","f","e","e">>, <<"3"," ","l","a","r","g","e","s","t"," ","l","a","s","t"," ","m","o","n","t","h">> }

CallerArguments ==
    Optional(Optional(Optional(Optional(Optional(Optional({EmptyObject},
        "limit", CallerLimits),
        "search", CallerSearches),
        "startDate", {<<"2","0","2","5","-","0","1","-","0","1">>}),
        "endDate", {<<"2","0","2","5","-","0","1","-","1","5">>}),
        "id", {<<"t","x","n","-","1">>}),
        "data", {[amount |-> -1234]})

\* the instants of the call: in UTC and a day apart from it on either side,
\* at the end of a month and in its middle
AdapterClocks ==
    { [year |-> 2025, month |-> 1, date |-> 31, midnightShift |-> 0, nowShift |-> 0],
      [year |-> 2025, month |-> 3, date |-> 15, midnightShift |-> 0, nowShift |-> 1],
      [year |-> 2024, month |-> 3, date |-> 1, midnightShift |-> -1, nowShift |-> -1] }

AdapterInit ==
    /\ BesideAdapterIdle
    /\ clock \in AdapterClocks
    /\ toolCall \in [toolName : ToolNames, args : CallerArguments]
    /\ adapted = FALSE
    /\ sdkArguments = <<>>

\* this.adaptArguments(toolName, args), spread into the call of the SDK method
AdaptArguments ==
    /\ ~adapted
    /\ sdkArguments' = adaptArguments(toolCall.toolName, toolCall.args, clock)
    /\ adapted' = TRUE
    /\ UNCHANGED toolCall
    /\ UNCHANGED besideAdapter

AdapterNext == AdaptArguments

AdapterSpec == AdapterInit /\ [][AdapterNext]_vars

----------------------------------------------------------------------------
(* The server's session: the requests of a client, authentication, and the *)
(* calls of the SDK client that the handlers make                          *)

SmartQueryTool == <<"t","r","a","n","s","a","c","t","i","o","n","s","_","s","m","a","r","t","Q","u","e","r","y">>

\* the SDK methods that each pre-aggregated summary tool calls
SummaryToolCalls(toolName) ==
    IF toolName = <<"s","p","e","n","d","i","n","g","_","g","e","t","B","y","C","a","t","e","g","o","r","y","M","o","n","t","h">> THEN <<<<"t","r","a","n","s","a","c","t","i","o","n","s",".","g","e","t","T","r","a","n","s","a","c","t","i","o","n","s">>>>
    ELSE IF toolName = <<"a","c","c","o","u","n","t","s","_","g","e","t","B","a","l","a","n","c","e","T","r","e","n","d","s">> THEN <<<<"a","c","c","o","u","n","t","s",".","g","e","t","A","l","l">>>>
    ELSE IF toolName = <<"b","u","d","g","e","t","_","g","e","t","V","a","r","i","a","n","c","e","S","u","m","m","a","r","y">> THEN <<<<"b","u","d","g","e","t","s",".","g","e","t","B","u","d","g","e","t","s">>>>
    ELSE IF toolName = <<"i","n","s","i","g","h","t","s","_","g","e","t","Q","u","i","c","k","S","t","a","t","s">>
    THEN <<<<"a","c","c","o","u","n","t","s",".","g","e","t","A","l","l">>, <<"t","r","a","n","s","a","c","t","i","o","n","s",".","g","e","t","T","r","a","n","s","a","c","t","i","o","n","s">>>>
    ELSE <<>>

\* the methods of the SDK client itself
DirectMethods == {<<"l","o","g","i","n">>, <<"i","n","t","e","r","a","c","t","i","v","e","L","o","g","i","n">>, <<"g","e","t","_","m","e">>}

\* the methods of the SDK client's modules
ModuleMethods(moduleName) ==
    IF moduleName = <<"a","c","c","o","u","n","t","s">> THEN {<<"g","e","t","A","l","l">>, <<"g","e","t","B","y","I","d">>, <<"g","e","t","H","i","s","t","o","r","y">>}
    ELSE IF moduleName = <<"t","r","a","n","s","a","c","t","i","o","n","s">> THEN {<<"g","e","t","T","r","a","n","s","a","c","t","i","o","n","s">>, <<"g","e","t","T","r","a","n","s","a","c","t","i","o","n","s","S","u","m","m","a","r","y">>}
    ELSE IF moduleName = <<"b","u","d","g","e","t","s">> THEN {<<"g","e","t","B","u","d","g","e","t","s">>}
    ELSE IF moduleName = <<"c","a","t","e","g","o","r","i","e","s">> THEN {<<"g","e","t","C","a","t","e","g","o","r","i","e","s">>}
    ELSE {}

\* where toolName.split('_') cuts first, 0 when it has one part only
FirstUnderscore(toolName) ==
    IF \A i \in DOMAIN toolName : toolName[i] # "_" THEN 0
    ELSE CHOOSE i \in DOMAIN toolName :
             toolName[i] = "_" /\ \A j \in 1..(i - 1) : toolName[j] # "_"

\* callDynamicMethod: the SDK methods called for the tool, or the error thrown
callDynamicMethod(toolName) ==
    LET cut        == FirstUnderscore(toolName)
        moduleName == SubSeq(toolName, 1, cut - 1)
        methodName == SubSeq(toolName, cut + 1, Len(toolName))
    IN  IF toolName = SmartQueryTool
        THEN [calls |-> <<<<"t","r","a","n","s","a","c","t","i","o","n","s",".","g","e","t","T","r","a","n","s","a","c","t","i","o","n","s">>>>, error |-> "none"]
        ELSE IF SummaryToolCalls(toolName) # <<>>
        THEN [calls |-> SummaryToolCalls(toolName), error |-> "none"]
        ELSE IF toolName \in DirectMethods
        THEN [calls |-> <<toolName>>, error |-> "none"]
        ELSE IF cut > 0 /\ methodName \in ModuleMethods(moduleName)
        THEN [calls |-> <<moduleName \o <<".">> \o methodName>>, error |-> "none"]
        ELSE [calls |-> <<>>, error |-> "MethodNotFound"]

NoAnswer == [code |-> "none", cause |-> "none"]

Result == [code |-> "result", cause |-> "none"]

\* the error a handler answers with: the tools/list handler throws on what
\* it caught, the tools/call handler wraps it in an InternalError
Thrown(req, error) ==
    IF req.method = "tools/list" THEN [code |-> error, cause |-> "none"]
    ELSE [code |-> "InternalError", cause |-> error]

\* if (this.isAuthenticated) return, left out
MustLogIn_Never(flag) == FALSE

\* if (this.isAuthenticated) return
MustLogIn(flag) == ~flag

\* one more entry in the log of SDK calls
Logged(log, r, method, event, from) ==
    Append(log, [request |-> r, method |-> method, event |-> event, from |-> from])

RECURSIVE LoggedAll(_, _, _, _, _)
LoggedAll(log, r, methods, event, from) ==
    IF methods = <<>> THEN log
    ELSE LoggedAll(Logged(log, r, Head(methods), event, from), r, Tail(methods), event, from)

\* the handler of request r from the return of ensureAuthenticated to its
\* next await or its answer
Authenticated(r, req, log) ==
    IF req.method = "tools/list"
    THEN [request |-> [req EXCEPT !.pc = "answered", !.answer = Result],
          log |-> Logged(log, r, <<"d","i","s","c","o","v","e","r","A","v","a","i","l","a","b","l","e","T","o","o","l","s">>, "invoke", "tools/list")]
    ELSE LET dispatched == callDynamicMethod(req.name)
         IN  IF dispatched.error # "none"
             THEN [request |-> [req EXCEPT !.pc = "answered",
                                           !.answer = Thrown(req, dispatched.error)],
                   log |-> log]
             ELSE [request |-> [req EXCEPT !.pc = "call"],
                   log |-> LoggedAll(log, r, dispatched.calls, "invoke", "callDynamicMethod")]

\* the requests one client has in flight at once
MaxRequests == 3

SessionToolNames ==
    { SmartQueryTool, <<"i","n","s","i","g","h","t","s","_","g","e","t","Q","u","i","c","k","S","t","a","t","s">>, <<"g","e","t","_","m","e">>, <<"l","o","g","i","n">>, <<"a","c","c","o","u","n","t","s","_","g","e","t","A","l","l">>,
      <<"a","c","c","o","u","n","t","s","_","n","o","p","e">>, <<"n","o","n","e","x","i","s","t","e","n","t","_","t","o","o","l">>, <<"u","n","k","n","o","w","n","t","o","o","l">> }

Unsent == [method |-> "none", name |-> <<>>, pc |-> "unsent", answer |-> NoAnswer]

SessionInit ==
    /\ BesideSessionIdle
    /\ clock \in Clocks
    /\ isAuthenticated = FALSE
    /\ configValid \in BOOLEAN
    /\ requests = [r \in 1..MaxRequests |-> Unsent]
    /\ sdkLog = <<>>

\* the handler of a request from its start to its first await or its answer
Handle(r, req) ==
    IF ~MustLogIn(isAuthenticated)
    THEN LET next == Authenticated(r, req, sdkLog)
         IN  /\ requests' = [requests EXCEPT ![r] = next.request]
             /\ sdkLog' = next.log
    ELSE IF ~configValid
    THEN /\ requests' = [requests EXCEPT ![r] = [req EXCEPT !.pc = "answered",
                                                    !.answer = Thrown(req, "InvalidRequest")]]
         /\ sdkLog' = sdkLog
    ELSE /\ requests' = [requests EXCEPT ![r] = [req EXCEPT !.pc = "login"]]
         /\ sdkLog' = Logged(sdkLog, r, <<"l","o","g","i","n">>, "invoke", "ensureAuthenticated")

\* the ListToolsRequestSchema handler is started for the next request
ListTools ==
    \E r \in 1..MaxRequests :
        /\ requests[r].pc = "unsent"
        /\ \A q \in 1..(r - 1) : requests[q].pc # "unsent"
        /\ Handle(r, [Unsent EXCEPT !.method = "tools/list"])
        /\ UNCHANGED <<isAuthenticated, configValid>>
        /\ UNCHANGED besideSession

\* the CallToolRequestSchema handler is started for the next request
CallTool ==
    \E r \in 1..MaxRequests, name \in SessionToolNames :
        /\ requests[r].pc = "unsent"
        /\ \A q \in 1..(r - 1) : requests[q].pc # "unsent"
        /\ Handle(r, [Unsent EXCEPT !.method = "tools/call", !.name = name])
        /\ UNCHANGED <<isAuthenticated, configValid>>
        /\ UNCHANGED besideSession

\* await this.monarchClient.login(...) returns in ensureAuthenticated, and the
\* handler goes on
LoginReturns ==
    \E r \in 1..MaxRequests :
        /\ requests[r].pc = "login"
        /\ LET next == Authenticated(r, requests[r],
                           Logged(sdkLog, r, <<"l","o","g","i","n">>, "ok", "ensureAuthenticated"))
           IN  /\ isAuthenticated' = TRUE
               /\ requests' = [requests EXCEPT ![r] = next.request]
               /\ sdkLog' = next.log
        /\ UNCHANGED configValid
        /\ UNCHANGED besideSession

\* await this.monarchClient.login(...) throws in ensureAuthenticated
LoginThrows ==
    \E r \in 1..MaxRequests :
        /\ requests[r].pc = "login"
        /\ requests' = [requests EXCEPT ![r] = [@ EXCEPT !.pc = "answered",
                                                   !.answer = Thrown(requests[r], "InternalError")]]
        /\ sdkLog' = Logged(sdkLog, r, <<"l","o","g","i","n">>, "fail", "ensureAuthenticated")
        /\ UNCHANGED <<isAuthenticated, configValid>>
        /\ UNCHANGED besideSession

\* the SDK methods called by callDynamicMethod return, and the result is
\* formatted and answered
SdkReturns ==
    \E r \in 1..MaxRequests :
        /\ requests[r].pc = "call"
        /\ requests' = [requests EXCEPT ![r] = [@ EXCEPT !.pc = "answered", !.answer = Result]]
        /\ sdkLog' = LoggedAll(sdkLog, r, callDynamicMethod(requests[r].name).calls,
                               "ok", "callDynamicMethod")
        /\ UNCHANGED <<isAuthenticated, configValid>>
        /\ UNCHANGED besideSession

\* one of them throws
SdkThrows ==
    \E r \in 1..MaxRequests :
        /\ requests[r].pc = "call"
        /\ requests' = [requests EXCEPT ![r] = [@ EXCEPT !.pc = "answered",
                                                   !.answer = Thrown(requests[r], "SdkError")]]
        /\ sdkLog' = Logged(sdkLog, r, Head(callDynamicMethod(requests[r].name).calls),
                            "fail", "callDynamicMethod")
        /\ UNCHANGED <<isAuthenticated, configValid>>
        /\ UNCHANGED besideSession

SessionNext ==
    \/ ListTools
    \/ CallTool
    \/ LoginReturns
    \/ LoginThrows
    \/ SdkReturns
    \/ SdkThrows

SessionSpec == SessionInit /\ [][SessionNext]_vars

----------------------------------------------------------------------------
(* The objects the callers hand over: which object a function writes to    *)

\* the object that is written to instead of the one at ref
Spread_Alias(objects, ref) == ref

\* { ...obj } and [...list]: the reference of a new object
Spread(objects, ref) == Len(objects) + 1

\* the object at ref copied to target (a new object, unless target is ref)
Copied(objects, ref, target) ==
    IF target = ref THEN objects ELSE Append(objects, objects[ref])

\* the test suite's parseNaturalLanguageQuery(query, existingArgs): every
\* assignment goes to enhancedArgs
ParseInto(objects, ref, q, now) ==
    LET enhanced == Spread(objects, ref)
        spread   == Copied(objects, ref, enhanced)
    IN  [objects |-> [spread EXCEPT ![enhanced] = parseNaturalLanguageQuery(q, spread[enhanced], now)],
         returned |-> enhanced]

\* adaptArguments(toolName, args) for a transaction tool: every assignment
\* goes to transactionArgs
AdaptInto(objects, ref, toolName, now) ==
    LET transactionArgs == Spread(objects, ref)
        spread          == Copied(objects, ref, transactionArgs)
    IN  [objects |-> [spread EXCEPT ![transactionArgs] =
                         adaptArguments(toolName, spread[transactionArgs], now)[1]],
         returned |-> transactionArgs]

\* MonarchMcpServer.formatTransactions(transactions, originalArgs): the sort
\* is in place, on processedTransactions
FormatInto(objects, ref, sortByAmount) ==
    LET processedTransactions == Spread(objects, ref)
        spread                == Copied(objects, ref, processedTransactions)
    IN  [objects |-> IF sortByAmount = <<>> THEN spread
                     ELSE [spread EXCEPT ![processedTransactions] = sort(@, sortByAmount)],
         returned |-> processedTransactions]

ParseName == "parseNaturalLanguageQuery"

AdaptName == "adaptArguments"

FormatName == "formatTransactions"

\* the tools that adaptArguments builds a transaction filter for
TransactionToolNames == {<<"t","r","a","n","s","a","c","t","i","o","n","s","_","g","e","t","T","r","a","n","s","a","c","t","i","o","n","s">>, <<"g","e","t","T","r","a","n","s","a","c","t","i","o","n","s">>}

\* the caller's object is the only one in memory
HeapCalls ==
    [operation : {ParseName}, original : BaseFilters, argument : Queries(1)] \cup
    [operation : {AdaptName}, original : CallerArguments, argument : TransactionToolNames] \cup
    [operation : {FormatName}, original : Lists(TransactionPool, MaxRecords) \cup LongTransactionLists,
     argument : SortDirections]

HeapInit ==
    /\ BesideHeapIdle
    /\ clock \in Clocks
    /\ handed \in HeapCalls
    /\ heap = <<handed.original>>
    /\ returned = 0

ParseOnHeap ==
    /\ returned = 0
    /\ handed.operation = ParseName
    /\ LET after == ParseInto(heap, 1, handed.argument, clock)
       IN  heap' = after.objects /\ returned' = after.returned
    /\ UNCHANGED handed
    /\ UNCHANGED besideHeap

AdaptOnHeap ==
    /\ returned = 0
    /\ handed.operation = AdaptName
    /\ LET after == AdaptInto(heap, 1, handed.argument, clock)
       IN  heap' = after.objects /\ returned' = after.returned
    /\ UNCHANGED handed
    /\ UNCHANGED besideHeap

FormatOnHeap ==
    /\ returned = 0
    /\ handed.operation = FormatName
    /\ LET after == FormatInto(heap, 1, handed.argument)
       IN  heap' = after.objects /\ returned' = after.returned
    /\ UNCHANGED handed
    /\ UNCHANGED besideHeap

HeapNext ==
    \/ ParseOnHeap
    \/ AdaptOnHeap
    \/ FormatOnHeap

HeapSpec == HeapInit /\ [][HeapNext]_vars

----------------------------------------------------------------------------
(* What a query says, read off its text (lower-cased, as all matching is   *)
(* case-insensitive), for stating the properties below.                    *)

Text == toLowerCase(query)

Last == <<"l","a","s","t">>

First == <<"f","i","r","s","t">>

All == <<"a","l","l">>

\* the phrase "<word> N" stands at position i
WordNumberAt(s, i, word) ==
    LitAt(s, i, word) /\ DigitsAt(s, AfterSpaces(s, i + Len(word))) # <<>>

\* its N
NumberOf(s, i, word) == parseInt(DigitsAt(s, AfterSpaces(s, i + Len(word))))

\* the phrase "N <word>" stands at position i
NumberWordAt(s, i, word) ==
    /\ DigitsAt(s, i) # <<>>
    /\ LitAt(s, AfterSpaces(s, i + Len(DigitsAt(s, i))), word)

\* where the quantity phrases of s start
QuantityStarts(s) ==
    {i \in 1..Len(s) :
        \/ \E w \in Range(QuantityPrefixes) : WordNumberAt(s, i, w)
        \/ \E w \in Range(QuantitySuffixes) : NumberWordAt(s, i, w)}

\* the first quantity phrase of s is "<word> N" for a word of `words` and an
\* N of `numbers`
FirstQuantityIs(s, words, numbers) ==
    /\ QuantityStarts(s) # {}
    /\ \E w \in words :
          /\ WordNumberAt(s, Min(QuantityStarts(s)), w)
          /\ NumberOf(s, Min(QuantityStarts(s)), w) \in numbers

\* no quantity phrase of s gives a number the parser accepts
NoQuantityAccepted(s) ==
    \/ QuantityStarts(s) = {}
    \/ FirstQuantityIs(s, Range(QuantityPrefixes), Nat \ (1..100))
    \/ \E w \in Range(QuantitySuffixes) :
          /\ NumberWordAt(s, Min(QuantityStarts(s)), w)
          /\ LET n == parseInt(DigitsAt(s, Min(QuantityStarts(s))))
             IN  n = 0 \/ n > 100

Parsed == "parse" \in done

----------------------------------------------------------------------------
(* C1 as stated: every "last N" or "first N" with 1 <= N <= 100 anywhere in *)
(* the query makes the limit N, whatever else the query contains.          *)
C1_AnyLastOrFirstSetsLimit ==
    Parsed =>
        \A i \in 1..Len(Text) : \A w \in {Last, First} :
            (WordNumberAt(Text, i, w) /\ NumberOf(Text, i, w) \in 1..100)
                => (has(enhancedArgs, "limit")
                    /\ enhancedArgs["limit"] = NumberOf(Text, i, w))

(* C1, amended: when the first quantity phrase of the query is "last N" or  *)
(* "first N" with 1 <= N <= 100, the parsed limit is N (a later quantity    *)
(* phrase is never looked at, and a base filter's limit is overridden).    *)
C1_FirstQuantityPhraseSetsLimit ==
    Parsed =>
        \A w \in {Last, First} :
            FirstQuantityIs(Text, {w}, 1..100)
                => /\ has(enhancedArgs, "limit")
                   /\ enhancedArgs["limit"] = NumberOf(Text, Min(QuantityStarts(Text)), w)

\* "first 100" leads a query that holds a second quantity phrase, over a base
\* filter that had its own limit
C1_Witness ==
    /\ Parsed
    /\ FirstQuantityIs(Text, {First}, {100})
    /\ Cardinality(QuantityStarts(Text)) > 1
    /\ has(existingArgs, "limit")
    /\ enhancedArgs["limit"] = 100

C3_DefaultLimit ==
    Parsed =>
        ((NoQuantityAccepted(Text) /\ ~has(existingArgs, "limit"))
            => /\ has(enhancedArgs, "limit")
               /\ enhancedArgs["limit"] = IF includes(Text, All) THEN 100 ELSE 25)

\* "all" beside a merchant phrase and no number: 100
C3_Witness ==
    /\ Parsed
    /\ QuantityStarts(Text) = {}
    /\ ~has(existingArgs, "limit")
    /\ includes(Text, All)
    /\ has(enhancedArgs, "search")
    /\ enhancedArgs["limit"] = 100

----------------------------------------------------------------------------
\* the words and signs some stage of the parser looks for, besides digits,
\* the well-known names and the charges/payments/transactions suffixes
StageWords ==
    { <<"f","r","o","m">>,
      <<"a","t">>,
      <<"@">>,
      <<"s","p","e","n","t">>,
      <<"t","h","i","s"," ","m","o","n","t","h">>,
      <<"l","a","s","t"," ","m","o","n","t","h">>,
      <<"t","h","i","s"," ","w","e","e","k">>,
      <<"o","v","e","r">>,
      <<"a","b","o","v","e">>,
      <<"m","o","r","e">>,
      <<"u","n","d","e","r">>,
      <<"b","e","l","o","w">>,
      <<"l","e","s","s">>,
      <<"e","x","a","c","t","l","y">>,
      <<"e","q","u","a","l">>,
      <<"a","l","l">> }

\* nothing in s that any stage could recognise
NoStageWord(s) ==
    /\ \A k \in 1..Len(s) : s[k] \notin Digit
    /\ \A w \in StageWords \cup Range(KnownMerchants) \cup Range(MerchantSuffixes) :
           ~includes(s, w)

(* C5: a query in which no stage recognises a pattern, parsed without a     *)
(* base filter, yields a filter whose only field is limit = 25: no merchant *)
(* term, no dates, no amount range, no sort direction.                     *)
C5_NoPatternGivesOnlyDefaultLimit ==
    Parsed =>
        ((existingArgs = EmptyObject /\ NoStageWord(Text))
            => /\ DOMAIN enhancedArgs = {"limit"}
               /\ enhancedArgs["limit"] = 25)

\* a non-empty text such as "show me stuff"
C5_Witness ==
    /\ Parsed
    /\ existingArgs = EmptyObject
    /\ NoStageWord(Text)
    /\ Len(Text) > 0
    /\ DOMAIN enhancedArgs = {"limit"}

----------------------------------------------------------------------------
\* where the well-known names stand in s as whole words
KnownNameStarts(s) ==
    {i \in 1..Len(s) :
        \E w \in Range(KnownMerchants) :
            LitAt(s, i, w) /\ WordBoundary(s, i) /\ WordBoundary(s, i + Len(w))}

\* the well-known name standing at i
KnownNameAt(s, i) == CHOOSE w \in Range(KnownMerchants) : LitAt(s, i, w)

(* C6: whenever the query contains a well-known merchant name (as a whole   *)
(* word), the merchant term is that name (the leftmost one), never a term  *)
(* of the "from X"/"at X", "X charges" or "spent at/on X" patterns, and it *)
(* replaces a base filter's term.                                          *)
C6_KnownMerchantWins ==
    Parsed =>
        (KnownNameStarts(Text) # {}
            => /\ has(enhancedArgs, "search")
               /\ enhancedArgs["search"] = KnownNameAt(Text, Min(KnownNameStarts(Text))))

\* a well-known name stands after a "from X" phrase whose X is acceptable
\* and is another word
C6_Witness ==
    /\ Parsed
    /\ KnownNameStarts(Text) # {}
    /\ merchantPatterns(2, Text) # NoMatch
    /\ AcceptedMerchant(trim(merchantPatterns(2, Text)))
    /\ trim(merchantPatterns(2, Text)) \notin Range(KnownMerchants)
    /\ enhancedArgs["search"] \in Range(KnownMerchants)

----------------------------------------------------------------------------
StopWords ==
    { <<"t","h","e">>,
      <<"a","n","d">>,
      <<"o","r">>,
      <<"t","h","i","s">>,
      <<"t","h","a","t">>,
      <<"m","o","n","t","h">>,
      <<"w","e","e","k">>,
      <<"y","e","a","r">>,
      <<"d","a","y">>,
      <<"l","a","s","t">>,
      <<"r","e","c","e","n","t">>,
      <<"c","h","a","r","g","e","s">>,
      <<"t","r","a","n","s","a","c","t","i","o","n","s">> }

\* a candidate the loop keeps: no stop word, not a number, longer than one
\* character
Acceptable(candidate) ==
    /\ candidate \notin StopWords
    /\ \E k \in 1..Len(candidate) : candidate[k] \notin Digit
    /\ Len(candidate) > 1

\* the patterns, in order, whose candidate for s is acceptable
AcceptablePatterns(s) ==
    {n \in 1..PatternCount :
        /\ merchantPatterns(n, s) # NoMatch
        /\ Acceptable(trim(merchantPatterns(n, s)))}

(* C7: the extracted merchant term is never a stop word and never purely    *)
(* numeric; a rejected candidate makes extraction go on with the next      *)
(* pattern, so the term is the candidate of the first pattern with an      *)
(* acceptable one and is absent when no pattern has one.                   *)
C7_StopWordsRejected ==
    (Parsed /\ ~has(existingArgs, "search")) =>
        /\ has(enhancedArgs, "search")
              => /\ enhancedArgs["search"] \notin StopWords
                 /\ \E k \in 1..Len(enhancedArgs["search"]) :
                        enhancedArgs["search"][k] \notin Digit
        /\ AcceptablePatterns(Text) = {} => ~has(enhancedArgs, "search")
        /\ AcceptablePatterns(Text) # {}
              => /\ has(enhancedArgs, "search")
                 /\ enhancedArgs["search"] =
                        trim(merchantPatterns(Min(AcceptablePatterns(Text)), Text))

\* "from the charges": the preposition pattern offers the stop word "the",
\* it is rejected and the suffix pattern's candidate becomes the term
C7_Witness ==
    /\ Parsed
    /\ ~has(existingArgs, "search")
    /\ merchantPatterns(2, Text) # NoMatch
    /\ trim(merchantPatterns(2, Text)) \in StopWords
    /\ Min(AcceptablePatterns(Text) \cup {PatternCount + 1}) = 3
    /\ has(enhancedArgs, "search")

----------------------------------------------------------------------------
BothParsed == done = {"parse", "parseUpper"}

\* both parses agree on the field key
SameField(key) ==
    /\ has(enhancedArgs, key) <=> has(upperArgs, key)
    /\ has(enhancedArgs, key) => enhancedArgs[key] = upperArgs[key]

\* no upper-case letter in term
IsLowerCase(term) == \A k \in 1..Len(term) : term[k] \notin Range(UpperLetters)

\* every character of q comes back from upper-casing as the same letter
CaseRoundTrips(q) ==
    \A k \in 1..Len(q) : toLowerCaseChar(toUpperCaseChar(q[k])) = toLowerCaseChar(q[k])

(* C8 as stated: for every query q, parse(q) and parse(q upper-cased) give  *)
(* the same merchant term and the same limit, and an extracted merchant    *)
(* term is lowercase.                                                      *)
C8_CaseInsensitive ==
    /\ BothParsed => (SameField("search") /\ SameField("limit"))
    /\ (Parsed /\ ~has(existingArgs, "search") /\ has(enhancedArgs, "search"))
          => IsLowerCase(enhancedArgs["search"])

(* C8, amended: parse(q) and parse(q upper-cased) give the same merchant    *)
(* term and the same limit for every query q whose characters upper-casing *)
(* maps to the same letters (all ASCII text); for every query, an          *)
(* extracted merchant term is lowercase.                                   *)
C8_CaseInsensitiveOnAscii ==
    /\ (BothParsed /\ CaseRoundTrips(query))
          => (SameField("search") /\ SameField("limit"))
    /\ (Parsed /\ ~has(existingArgs, "search") /\ has(enhancedArgs, "search"))
          => IsLowerCase(enhancedArgs["search"])

\* a query written in mixed case whose merchant term both parses extract
C8_Witness ==
    /\ BothParsed
    /\ CaseRoundTrips(query)
    /\ query # toUpperCase(query)
    /\ query # toLowerCase(query)
    /\ ~has(existingArgs, "search")
    /\ has(enhancedArgs, "search")
    /\ has(upperArgs, "search")
    /\ upperArgs["search"] = enhancedArgs["search"]

----------------------------------------------------------------------------
(* Amount phrases as the query writes them *)

OverWords == { <<"o","v","e","r">>, <<"a","b","o","v","e">>, <<"m","o","r","e"," ","t","h","a","n">> }

UnderWords == { <<"u","n","d","e","r">>, <<"b","e","l","o","w">>, <<"l","e","s","s"," ","t","h","a","n">> }

ExactWords == { <<"e","x","a","c","t","l","y">>, <<"e","q","u","a","l"," ","t","o">> }

\* where the literal after an amount word ending before e starts: spaces
\* and the currency symbol are optional
LiteralStart(s, e) ==
    LET a == SpanEnd(s, e, Whitespace) + 1
    IN  IF LitAt(s, a, <<"$">>) THEN a + 1 ELSE a

\* an amount phrase of `words` stands at i: the word, then a numeric literal
AmountPhraseAt(s, i, words) ==
    \E w \in words : LitAt(s, i, w) /\ DigitsAt(s, LiteralStart(s, i + Len(w))) # <<>>

AmountPhraseStarts(s, words) == {i \in 1..Len(s) : AmountPhraseAt(s, i, words)}

\* the value of the numeric literal written at d, in ten-thousandths: its
\* digits, thousands groups and decimal component
WrittenAmount(s, d) ==
    LET e        == ThousandsEnd(s, d + Len(DigitsAt(s, d)))
        whole    == parseInt(removeCommas(SubSeq(s, d, e - 1)))
        decimals == IF LitAt(s, e, <<".">>) THEN DigitsAt(s, e + 1) ELSE <<>>
    IN  whole * 10000 + parseInt(SubSeq(decimals \o <<"0","0","0","0">>, 1, 4))

\* the X of the amount phrase at i
AmountOf(s, i, words) ==
    LET w == CHOOSE w \in words :
                 LitAt(s, i, w) /\ DigitsAt(s, LiteralStart(s, i + Len(w))) # <<>>
    IN  WrittenAmount(s, LiteralStart(s, i + Len(w)))

\* the only amount phrase of s is one of `words`
OnlyAmountPhrase(s, words) ==
    /\ Cardinality(AmountPhraseStarts(s, words)) = 1
    /\ \A other \in {OverWords, UnderWords, ExactWords} \ {words} :
           AmountPhraseStarts(s, other) = {}

ServerParsed == "serverParse" \in done

(* C9: in the server's parser, a query whose only amount phrase is          *)
(* "over|above|more than $X" yields absAmountRange = [X, null], and one    *)
(* whose only amount phrase is "under|below|less than $X" yields           *)
(* [null, X], X being the literal without its thousands separators.        *)
C9_AmountDirection ==
    ServerParsed =>
        /\ OnlyAmountPhrase(Text, OverWords)
              => /\ has(serverArgs, "absAmountRange")
                 /\ serverArgs["absAmountRange"] =
                        <<Number(AmountOf(Text, Min(AmountPhraseStarts(Text, OverWords)),
                                          OverWords)), null>>
        /\ OnlyAmountPhrase(Text, UnderWords)
              => /\ has(serverArgs, "absAmountRange")
                 /\ serverArgs["absAmountRange"] =
                        <<null, Number(AmountOf(Text, Min(AmountPhraseStarts(Text, UnderWords)),
                                                UnderWords))>>

(* C10: a query containing "exactly $X" or "equal to $X" yields             *)
(* absAmountRange = [0.99 * X, 1.01 * X], both bounds populated.           *)
C10_ExactBand ==
    Parsed =>
        (AmountPhraseStarts(Text, ExactWords) # {}
            => LET X == AmountOf(Text, Min(AmountPhraseStarts(Text, ExactWords)), ExactWords)
               IN  /\ has(enhancedArgs, "absAmountRange")
                   /\ enhancedArgs["absAmountRange"] =
                          <<Number((X * 99) \div 100), Number((X * 101) \div 100)>>)

----------------------------------------------------------------------------
\* the X of the first phrase of `words` in s
FirstAmountOf(s, words) == AmountOf(s, Min(AmountPhraseStarts(s, words)), words)

(* C11: in the server's parser, of several amount phrases exactly one       *)
(* survives, whatever their order in the text: an "exactly" phrase gives   *)
(* its band, otherwise an "under" phrase gives [null, X], otherwise an     *)
(* "over" phrase gives [X, null]; so min and max are both populated only   *)
(* by an "exactly" band.                                                   *)
C11_AmountPrecedence ==
    ServerParsed =>
        LET range == serverArgs["absAmountRange"]
        IN  IF AmountPhraseStarts(Text, ExactWords) # {}
            THEN /\ has(serverArgs, "absAmountRange")
                 /\ range = <<Number((FirstAmountOf(Text, ExactWords) * 99) \div 100),
                              Number((FirstAmountOf(Text, ExactWords) * 101) \div 100)>>
            ELSE IF AmountPhraseStarts(Text, UnderWords) # {}
            THEN /\ has(serverArgs, "absAmountRange")
                 /\ range = <<null, Number(FirstAmountOf(Text, UnderWords))>>
            ELSE IF AmountPhraseStarts(Text, OverWords) # {}
            THEN /\ has(serverArgs, "absAmountRange")
                 /\ range = <<Number(FirstAmountOf(Text, OverWords)), null>>
            ELSE ~has(serverArgs, "absAmountRange")

----------------------------------------------------------------------------
(* Dates as the claims name them *)

\* today, the local calendar date of the call
Today == LocalDate(clock)

\* a calendar date written YYYY-MM-DD
CalendarDate(d) == toISODate(d, 0)

FirstDayOfMonth(d) == [d EXCEPT !.date = 1]

(* C12: in the server's parser, for every value of today a query            *)
(* containing "this month" yields startDate = the first calendar day of    *)
(* today's month and endDate = today, as YYYY-MM-DD dates.                 *)
C12_ThisMonthRange ==
    ServerParsed =>
        (includes(Text, ThisMonth)
            => /\ has(serverArgs, "startDate")
               /\ has(serverArgs, "endDate")
               /\ serverArgs["startDate"] = CalendarDate(FirstDayOfMonth(Today))
               /\ serverArgs["endDate"] = CalendarDate(Today))

\* the last day of the calendar month before d's month
LastDayOfPreviousMonth(d) == PrevDay(FirstDayOfMonth(d))

(* C13: in the server's parser, for every value of today a query            *)
(* containing "last month" and not "this month" yields startDate = the     *)
(* first day and endDate = the last day of the calendar month before       *)
(* today's month (December of the previous year when today is in January). *)
C13_LastMonthRange ==
    ServerParsed =>
        ((includes(Text, LastMonth) /\ ~includes(Text, ThisMonth))
            => /\ has(serverArgs, "startDate")
               /\ has(serverArgs, "endDate")
               /\ serverArgs["startDate"] =
                      CalendarDate(FirstDayOfMonth(LastDayOfPreviousMonth(Today)))
               /\ serverArgs["endDate"] = CalendarDate(LastDayOfPreviousMonth(Today)))

----------------------------------------------------------------------------
\* the relative-time phrase of s first in the priority order, <<>> when s
\* has none
HonouredPhrase(s) ==
    IF includes(s, ThisMonth) THEN ThisMonth
    ELSE IF includes(s, LastMonth) THEN LastMonth
    ELSE IF includes(s, ThisWeek) THEN ThisWeek
    ELSE <<>>

\* result has the dates of `alone`, the result for one phrase by itself
SameRange(result, alone) ==
    /\ has(result, "startDate") /\ has(result, "endDate")
    /\ result["startDate"] = alone["startDate"]
    /\ result["endDate"] = alone["endDate"]

NoRange(result) == ~has(result, "startDate") /\ ~has(result, "endDate")

(* C14: in both parsers one relative-time phrase at most is honoured, in    *)
(* the priority order "this month", "last month", "this week": a query     *)
(* with several gets the range the first of them in that order gets by     *)
(* itself, and a query with none gets no startDate and no endDate.         *)
C14_TimePhrasePriority ==
    /\ Parsed =>
          IF HonouredPhrase(Text) = <<>> THEN NoRange(enhancedArgs)
          ELSE SameRange(enhancedArgs,
                         parseNaturalLanguageQuery(HonouredPhrase(Text), EmptyObject, clock))
    /\ ServerParsed =>
          IF HonouredPhrase(Text) = <<>> THEN NoRange(serverArgs)
          ELSE SameRange(serverArgs,
                         MonarchMcpServer_parseNaturalLanguageQuery(HonouredPhrase(Text), clock))

\* "last month" written before "this month": the range is this month's, and
\* last month's by itself is another one
C14_Witness ==
    /\ Parsed
    /\ \E i, j \in 1..Len(Text) :
          i < j /\ LitAt(Text, i, LastMonth) /\ LitAt(Text, j, ThisMonth)
    /\ SameRange(enhancedArgs, parseNaturalLanguageQuery(ThisMonth, EmptyObject, clock))
    /\ ~SameRange(enhancedArgs, parseNaturalLanguageQuery(LastMonth, EmptyObject, clock))

----------------------------------------------------------------------------
\* what the query yields by itself, parsed without a pre-existing filter
Fresh == parseNaturalLanguageQuery(query, EmptyObject, clock)

\* the keys the query produces: the fields a stage extracted; the limit only
\* when a quantity was accepted (a default is no parse result)
ProducedKeys ==
    (DOMAIN Fresh \ {"limit"})
        \cup (IF NoQuantityAccepted(Text) THEN {} ELSE {"limit"})

----------------------------------------------------------------------------
\* a bound of an amount range: null or a number
IsBound(v) == v = null \/ (Len(v) = 1 /\ v[1] \in Nat)

\* result is a filter: nothing but filter fields, each of its kind
IsFilter(result) ==
    /\ DOMAIN result \subseteq
           {"limit", "search", "startDate", "endDate", "absAmountRange", "_sortByAmount"}
    /\ has(result, "limit") => result["limit"] \in Nat \ {0}
    /\ \A key \in DOMAIN result \cap {"search", "startDate", "endDate", "_sortByAmount"} :
           Len(result[key]) > 0
    /\ has(result, "absAmountRange")
          => /\ Len(result["absAmountRange"]) = 2
             /\ IsBound(result["absAmountRange"][1])
             /\ IsBound(result["absAmountRange"][2])

LastMinusFive == << "l","a","s","t"," ","-","5" >>

(* C16: for every input string (empty, punctuation only, an incomplete      *)
(* phrase, "last -5 transactions") the call returns a filter: the          *)
(* unit-tested parser one with a limit in 1..100, which for "last -5" (no  *)
(* quantity accepted elsewhere in the text) is the default 25.             *)
C16_AlwaysReturnsFilter ==
    /\ Parsed =>
          /\ IsFilter(enhancedArgs)
          /\ has(enhancedArgs, "limit")
          /\ enhancedArgs["limit"] \in 1..100
          /\ (includes(Text, LastMinusFive) /\ NoQuantityAccepted(Text))
                => enhancedArgs["limit"] = 25
    /\ ServerParsed => IsFilter(serverArgs)

\* "last -5 transactions" by itself
C16_Witness ==
    /\ Parsed
    /\ LitAt(Text, 1, LastMinusFive)
    /\ NoQuantityAccepted(Text)
    /\ DOMAIN enhancedArgs = {"limit"}
    /\ enhancedArgs["limit"] = 25

----------------------------------------------------------------------------
(* What the formatters returned, for stating the properties below.         *)

\* the calls of one formatter answered so far
CallsOf(formatter) == {call \in DOMAIN formatted : call.formatter = formatter}

TransactionTexts == CallsOf(FormatTransactionsName)

AccountTexts == CallsOf(FormatAccountsName)

ServerTexts == CallsOf(FormatArrayResultName)

\* C17: OptimizedResponseFormatter.formatTransactions returns exactly the
\* empty string for an empty transaction list, at every verbosity level and
\* whether or not an original query is supplied.
C17_EmptyListGivesEmptyString ==
    Len(transactions) = 0 =>
        \A call \in TransactionTexts : formatted[call] = <<>>

\* an empty list has been formatted with a query at one verbosity and
\* without one at another
C17_Witness ==
    /\ Len(transactions) = 0
    /\ \E with, without \in TransactionTexts :
           /\ with.originalQuery # <<>>
           /\ without.originalQuery = <<>>
           /\ with.verbosity # without.verbosity

\* the same call without a query
Plain(call) == [call EXCEPT !.originalQuery = <<>>]

\* where the annotation of a text ends: at the end of the line on which the
\* first occurrence of the query ends (0 when the query is not in the text)
AnnotationEnd(text, originalQuery) ==
    LET starts == {i \in DOMAIN text : LitAt(text, i, originalQuery)}
        after == Min(starts) + Len(originalQuery)
    IN  IF starts = {} THEN 0
        ELSE Min({i \in after..Len(text) : text[i] = "\n"} \cup {Len(text) + 1}) - 1

\* the text opens with an annotation: the query with nothing but the rest of
\* its first and of its last line around it; what follows the blank line after
\* it is what the same call without a query returned
Annotated(call) ==
    LET text == formatted[call]
        end == AnnotationEnd(text, call.originalQuery)
        annotation == SubSeq(text, 1, end)
    IN  /\ end > 0
        /\ Cardinality({i \in DOMAIN annotation : annotation[i] = "\n"}) =
           Cardinality({i \in DOMAIN call.originalQuery : call.originalQuery[i] = "\n"})
        /\ Plain(call) \in DOMAIN formatted =>
               text = annotation \o <<"\n","\n">> \o formatted[Plain(call)]

\* the annotation is a single line
OneLine(call) ==
    \A i \in 1..AnnotationEnd(formatted[call], call.originalQuery) :
        formatted[call][i] # "\n"

\* no line of the text is an annotation
NotAnnotated(call) == ~includes(formatted[call], <<"S","m","a","r","t"," ","Q","u","e","r","y">>)

\* C18 as stated: whenever a non-empty original query is supplied to the
\* transaction formatter, the output starts with a one-line annotation
\* containing the literal query text, followed by the normal body; without a
\* query the output has no annotation.
C18_QueryAnnotation ==
    \A call \in TransactionTexts \cup ServerTexts :
        IF call.originalQuery # <<>> THEN Annotated(call) /\ OneLine(call)
        ELSE NotAnnotated(call)

\* C18 as amended: whenever a non-empty original query is supplied with a
\* non-empty transaction list, the output starts with an annotation containing
\* the literal query text (one line for a query of one line), followed by the
\* normal body; without a query the output has no annotation.
C18_QueryAnnotationOfNonEmptyList ==
    Len(transactions) > 0 =>
        \A call \in TransactionTexts \cup ServerTexts :
            IF call.originalQuery # <<>>
            THEN Annotated(call) /\
                 ((\A i \in DOMAIN call.originalQuery : call.originalQuery[i] # "\n")
                      => OneLine(call))
            ELSE NotAnnotated(call)

\* a non-empty list has been formatted with a query and, at the same
\* verbosity, without one
C18_Witness ==
    /\ Len(transactions) > 0
    /\ \E call \in TransactionTexts :
           /\ call.originalQuery # <<>>
           /\ Plain(call) \in DOMAIN formatted

\* the verbosity levels from the tersest to the fullest
Density(verbosity) ==
    IF verbosity = <<"u","l","t","r","a","-","l","i","g","h","t">> THEN 1
    ELSE IF verbosity = <<"l","i","g","h","t">> THEN 2
    ELSE 3

\* of any two texts one formatter gave for the same query, the one of the
\* lower verbosity is not the longer one
SizeFollowsVerbosity(calls) ==
    \A terse, full \in calls :
        (/\ terse.originalQuery = full.originalQuery
         /\ Density(terse.verbosity) <= Density(full.verbosity))
            => Len(formatted[terse]) <= Len(formatted[full])

\* C19 as stated: for any fixed record set (of any size, including empty and
\* single-record sets), the ultra-light output is at most as long as the light
\* output, which is at most as long as the standard output.
C19_VerbosityToSize ==
    /\ SizeFollowsVerbosity(TransactionTexts)
    /\ SizeFollowsVerbosity(AccountTexts)

\* C19 as amended: the same for any record set of at least two records, and
\* for the empty transaction list.
C19_VerbosityToSizeFromTwoRecords ==
    /\ Len(transactions) # 1 => SizeFollowsVerbosity(TransactionTexts)
    /\ Len(accounts) >= 2 => SizeFollowsVerbosity(AccountTexts)

\* a list of two or more records has been formatted at two verbosity levels
C19_Witness ==
    \/ /\ Len(transactions) >= 2
       /\ \E terse, full \in TransactionTexts :
              /\ terse.originalQuery = full.originalQuery
              /\ Density(terse.verbosity) < Density(full.verbosity)
              /\ Len(formatted[terse]) < Len(formatted[full])
    \/ /\ Len(accounts) >= 2
       /\ \E terse, full \in AccountTexts :
              /\ Density(terse.verbosity) < Density(full.verbosity)
              /\ Len(formatted[terse]) < Len(formatted[full])

\* where the total of a text starts: after the last 'Volume: $' or
\* 'Total: $' (the empty set when the text has neither)
TotalStarts(text) ==
    {i + 9 : i \in {j \in DOMAIN text : LitAt(text, j, <<"V","o","l","u","m","e",":"," ","$">>)}} \cup
    {i + 8 : i \in {j \in DOMAIN text : LitAt(text, j, <<"T","o","t","a","l",":"," ","$">>)}}

Max(S) == CHOOSE x \in S : \A y \in S : x >= y

\* the figure written there
ReportedTotal(text) ==
    LET start == Max(TotalStarts(text))
    IN  SubSeq(text, start, SpanEnd(text, start, Digit \cup {",", "."}))

\* the hundredths a written figure stands for
Hundredths(figure) ==
    LET digits == removeCommas(figure)
        dots == {i \in DOMAIN digits : digits[i] = "."}
        whole == IF dots = {} THEN digits ELSE SubSeq(digits, 1, Min(dots) - 1)
        fraction == IF dots = {} THEN <<>>
                    ELSE SubSeq(digits, Min(dots) + 1, Len(digits))
    IN  100 * parseInt(whole) +
        (IF Len(fraction) = 1 THEN 10 * parseInt(fraction) ELSE parseInt(fraction))

Magnitude(n) == IF n < 0 THEN 0 - n ELSE n

\* the sum of the absolute values of the amounts of all records
RECURSIVE AbsoluteSum(_)
AbsoluteSum(records) ==
    IF Len(records) = 0 THEN 0
    ELSE Magnitude(Head(records).amount) + AbsoluteSum(Tail(records))

\* the text reports a total, and it is the sum of the absolute amounts
ReportsVolume(call) ==
    /\ TotalStarts(formatted[call]) # {}
    /\ Hundredths(ReportedTotal(formatted[call])) = AbsoluteSum(transactions)

\* C20: at every verbosity, the total reported for a transaction set equals
\* the sum of the absolute values of the amounts of all records in the set
\* (including records beyond the display cap), never the signed net sum,
\* whatever the order of the records.
C20_TransactionAggregate ==
    Len(transactions) > 0 =>
        \A call \in TransactionTexts \cup ServerTexts : ReportsVolume(call)

----------------------------------------------------------------------------
(* The verbosity level chosen from the estimated size.                     *)

\* the size limit of the call
Limit ==
    IF has(sizing, "maxResponseSize") THEN sizing.maxResponseSize
    ELSE DefaultMaxResponseSize

\* the estimated total of a level: its per-item estimate times the item count
EstimatedTotal(level) == RESPONSE_SIZE_ESTIMATES[level][sizing.dataType] * sizing.itemCount

Fits(level) == EstimatedTotal(level) <= Limit

Chosen == optimal # <<>>

\* C21: calculateOptimalVerbosity returns 'standard' exactly when the standard
\* total is within the maximum, 'light' exactly when the standard total
\* exceeds the maximum and the light total is within it, and 'ultra-light' in
\* every other case, even when the ultra-light total itself exceeds the
\* maximum; so the result is the highest level whose estimated total fits,
\* whenever one fits.
C21_OptimalVerbosity ==
    Chosen =>
        /\ optimal = <<"s","t","a","n","d","a","r","d">> <=> Fits("standard")
        /\ optimal = <<"l","i","g","h","t">> <=> (~Fits("standard") /\ Fits("light"))
        /\ optimal = <<"u","l","t","r","a","-","l","i","g","h","t">> <=> (~Fits("standard") /\ ~Fits("light"))
        /\ Fits("standard") => optimal = <<"s","t","a","n","d","a","r","d">>
        /\ (Fits("light") /\ ~Fits("standard")) => optimal = <<"l","i","g","h","t">>
        /\ (Fits("ultra-light") /\ ~Fits("light") /\ ~Fits("standard"))
               => optimal = <<"u","l","t","r","a","-","l","i","g","h","t">>

\* a call whose ultra-light total exceeds the limit has returned
C21_Witness ==
    /\ Chosen
    /\ sizing.itemCount > 0
    /\ ~Fits("ultra-light")

----------------------------------------------------------------------------
(* Incomplete records.                                                     *)

\* the call lists the records one by one
ListsRecords(call) ==
    call.verbosity \in {<<"l","i","g","h","t">>, <<"s","t","a","n","d","a","r","d">>, <<"s","u","m","m","a","r","y">>, <<"d","e","t","a","i","l","e","d">>}

\* the call shows the account of each transaction
ShowsAccounts(call) == call.verbosity \in {<<"s","t","a","n","d","a","r","d">>, <<"s","u","m","m","a","r","y">>, <<"d","e","t","a","i","l","e","d">>}

\* the record names no merchant in the field the formatter of the call reads
NoMerchant(txn, call) ==
    IF call.formatter = FormatArrayResultName
    THEN ~has(txn, "merchantName") /\ ~has(txn, "description")
    ELSE ~has(txn, "merchant")

\* the sum of the absolute values of the amounts present, or of the balances
RECURSIVE PresentSum(_, _)
PresentSum(records, key) ==
    IF Len(records) = 0 THEN 0
    ELSE (IF has(Head(records), key) THEN Magnitude(Head(records)[key]) ELSE 0)
         + PresentSum(Tail(records), key)

\* each absent field of each record is shown by its placeholder
PlaceholdersShown(call) ==
    LET text == formatted[call]
    IN  \A i \in DOMAIN transactions :
            LET txn == transactions[i]
            IN  /\ (NoMerchant(txn, call) /\ ListsRecords(call))
                       => includes(text, <<"U","n","k","n","o","w","n"," ","m","e","r","c","h","a","n","t">>)
                /\ (~has(txn, "category") /\ ListsRecords(call))
                       => includes(text, <<"U","n","c","a","t","e","g","o","r","i","z","e","d">>)
                /\ (~has(txn, "account") /\ ShowsAccounts(call))
                       => includes(text, <<"A","c","c","o","u","n","t",":"," ","U","n","k","n","o","w","n">>)
                /\ (~has(txn, "amount") /\ ListsRecords(call))
                       => includes(text, <<"$","0">>)

\* a total, where one is reported, is a figure: the sum with 0 for what is absent
TotalCountsAbsentAsZero(call, records, key) ==
    LET text == formatted[call]
    IN  TotalStarts(text) # {} =>
            /\ ReportedTotal(text) # <<>>
            /\ Hundredths(ReportedTotal(text)) = PresentSum(records, key)

\* C22: a record with an absent merchant, category, account, balance or amount
\* is rendered with the placeholders ("Unknown...", "Uncategorized", 0), and
\* an absent amount or balance contributes 0 to the aggregate, at every
\* verbosity level.
C22_IncompleteRecords ==
    /\ \A call \in TransactionTexts \cup ServerTexts :
           Len(transactions) > 0 =>
               /\ PlaceholdersShown(call)
               /\ TotalCountsAbsentAsZero(call, transactions, "amount")
    /\ \A call \in AccountTexts :
           /\ TotalCountsAbsentAsZero(call, accounts, "currentBalance")
           /\ (ListsRecords(call) /\ \E i \in DOMAIN accounts :
                                         ~has(accounts[i], "currentBalance"))
                  => includes(formatted[call], <<"$","0">>)

----------------------------------------------------------------------------
(* The records a listing displays, read off the text.                      *)

\* where the displayed records start: at a bullet or a digit after a blank line
RecordStarts(text) ==
    {p \in 3..Len(text) :
        /\ text[p - 1] = "\n"
        /\ text[p - 2] = "\n"
        /\ text[p] \in Digit \cup {"U+2022"}}

\* where the line that starts at or before p ends: at its line break
RECURSIVE LineEnd(_, _)
LineEnd(text, p) ==
    IF p > Len(text) \/ text[p] = "\n" THEN p ELSE LineEnd(text, p + 1)

\* the signed amount, in hundredths, written in the second line of the
\* record that starts at p ("  Amount: +$12.34")
DisplayedAmount(text, p) ==
    LET a == LineEnd(text, p) + 11
        figure == SubSeq(text, a + 2, SpanEnd(text, a + 2, Digit \cup {",", "."}))
    IN  IF text[a] = "-" THEN 0 - Hundredths(figure) ELSE Hundredths(figure)

\* the start of the n-th displayed record
StartOf(starts, n) == CHOOSE p \in starts : Cardinality({q \in starts : q <= p}) = n

\* the displayed amounts in the order of the listing
Displayed(text) ==
    LET starts == RecordStarts(text)
    IN  [n \in 1..Cardinality(starts) |-> DisplayedAmount(text, StartOf(starts, n))]

\* the amounts of the fetched records
Fetched == [i \in DOMAIN transactions |-> transactions[i].amount]

Occurrences(amounts, v) == Cardinality({i \in DOMAIN amounts : amounts[i] = v})

\* the same amounts, each as often, in some order
Reordering(shown, fetched) ==
    /\ Len(shown) = Len(fetched)
    /\ \A i \in DOMAIN fetched :
           Occurrences(shown, fetched[i]) = Occurrences(fetched, fetched[i])

NonIncreasing(amounts) ==
    \A i \in 1..(Len(amounts) - 1) : Magnitude(amounts[i]) >= Magnitude(amounts[i + 1])

NonDecreasing(amounts) ==
    \A i \in 1..(Len(amounts) - 1) : Magnitude(amounts[i]) <= Magnitude(amounts[i + 1])

\* every displayed record is prefixed with its place in the listing, and its
\* second line is the amount line
Numbered(text) ==
    LET starts == RecordStarts(text)
    IN  \A n \in 1..Cardinality(starts) :
            /\ LitAt(text, StartOf(starts, n), toString(n) \o <<"."," ">>)
            /\ LitAt(text, LineEnd(text, StartOf(starts, n)) + 1, <<" "," ","A","m","o","u","n","t",":"," ">>)

Bulleted(text) == \A p \in RecordStarts(text) : text[p] = "U+2022"

AsksLargest ==
    \/ includes(Text, <<"l","a","r","g","e","s","t">>)
    \/ includes(Text, <<"b","i","g","g","e","s","t">>)
    \/ includes(Text, <<"h","i","g","h","e","s","t">>)

AsksSmallest == includes(Text, <<"s","m","a","l","l","e","s","t">>) \/ includes(Text, <<"l","o","w","e","s","t">>)

\* the listings made for the query
Listings == {call \in ServerTexts : call.verbosity # <<"b","r","i","e","f">>}

\* C23 as stated: when the query contains "largest", "biggest" or "highest"
\* the formatted transactions appear in non-increasing order of the absolute
\* value of their amount, and when it contains "smallest" or "lowest" in
\* non-decreasing order; the displayed records are a reordering of the fetched
\* ones and the i-th is prefixed with the rank number i instead of a bullet.
\* Without a sort phrase the fetched order is kept and records are bulleted.
C23_RankedDisplay ==
    Len(transactions) > 0 =>
        \A call \in Listings :
            LET text == formatted[call]
                shown == Displayed(text)
            IN  /\ AsksLargest => NonIncreasing(shown) /\ Numbered(text)
                /\ AsksSmallest => NonDecreasing(shown) /\ Numbered(text)
                /\ Reordering(shown, Fetched)
                /\ (~AsksLargest /\ ~AsksSmallest) => shown = Fetched /\ Bulleted(text)

\* the display cap of a listing
CapOf(call) == IF call.verbosity = <<"d","e","t","a","i","l","e","d">> THEN DetailedCap ELSE SummaryCap

\* the first records, up to the cap, of a reordering of the fetched ones: as
\* many as the cap allows, none more often than fetched, and none left out
\* that belongs before a displayed one
FirstOfReordering(shown, fetched, cap) ==
    /\ Len(shown) = MathMin(cap, Len(fetched))
    /\ \A i \in DOMAIN shown :
           Occurrences(shown, shown[i]) <= Occurrences(fetched, shown[i])
    /\ \A i \in DOMAIN fetched :
           Occurrences(shown, fetched[i]) < Occurrences(fetched, fetched[i]) =>
               \A j \in DOMAIN shown :
                   /\ AsksLargest => Magnitude(shown[j]) >= Magnitude(fetched[i])
                   /\ (AsksSmallest /\ ~AsksLargest)
                          => Magnitude(shown[j]) <= Magnitude(fetched[i])

\* C23 as amended: when the query contains "largest", "biggest" or "highest"
\* the displayed transactions are in non-increasing order of the absolute
\* value of their amount; when it contains "smallest" or "lowest" and none of
\* the former, in non-decreasing order; the displayed records are the first
\* ones, up to the display cap, of a reordering of the fetched ones, and the
\* i-th is prefixed with the rank number i instead of a bullet.  Without a
\* sort phrase the fetched order is kept and records are bulleted.
C23_RankedDisplayUpToCap ==
    Len(transactions) > 0 =>
        \A call \in Listings :
            LET text == formatted[call]
                shown == Displayed(text)
            IN  /\ AsksLargest => NonIncreasing(shown) /\ Numbered(text)
                /\ (AsksSmallest /\ ~AsksLargest)
                       => NonDecreasing(shown) /\ Numbered(text)
                /\ FirstOfReordering(shown, Fetched, CapOf(call))
                /\ (~AsksLargest /\ ~AsksSmallest) =>
                       /\ shown = SubSeq(Fetched, 1, Len(shown))
                       /\ Bulleted(text)

\* a listing of more records than its cap, or of records whose amounts were
\* not in order, has been ranked
C23_Witness ==
    /\ AsksLargest \/ AsksSmallest
    /\ \E call \in Listings :
           /\ Displayed(formatted[call]) # Fetched
           /\ Len(transactions) > CapOf(call)

----------------------------------------------------------------------------
(* The display cap of the summary listings                                 *)

\* the calls that asked for the summary format, or for none
SummaryCalls(formatter) ==
    {call \in CallsOf(formatter) : call.verbosity \in {<<>>, <<"s","u","m","m","a","r","y">>}}

\* where the records of a listing start: at a bullet or a rank number that
\* opens a line
RenderedRecords(text) ==
    {p \in 2..Len(text) : text[p - 1] = "\n" /\ text[p] \in Digit \cup {"U+2022"}}

\* the number the header gives in brackets after its title
HeaderCount(text) ==
    LET title == CHOOSE p \in 1..Len(text) :
                     /\ LitAt(text, p, <<"*","*"," ","(">>)
                     /\ \A q \in 1..(p - 1) : ~LitAt(text, q, <<"*","*"," ","(">>)
    IN  parseInt(SubSeq(text, title + 4, SpanEnd(text, title + 4, Digit)))

\* the number of the "... and N more" line, 0 when the listing has none
MoreCount(text) ==
    IF ~includes(text, <<".",".","."," ","a","n","d"," ">>) THEN 0
    ELSE LET more == CHOOSE p \in 1..Len(text) : LitAt(text, p, <<"\n",".",".","."," ","a","n","d"," ">>)
             last == SpanEnd(text, more + 9, Digit)
         IN  IF LitAt(text, last + 1, <<" ","m","o","r","e">>) THEN parseInt(SubSeq(text, more + 9, last))
             ELSE 0

\* n records listed under the cap
Capped(text, n, cap) ==
    /\ Cardinality(RenderedRecords(text)) = (IF n < cap THEN n ELSE cap)
    /\ HeaderCount(text) = n
    /\ includes(text, <<".",".","."," ","a","n","d"," ">>) <=> n > cap
    /\ n > cap => MoreCount(text) = n - cap
    /\ Cardinality(RenderedRecords(text)) + MoreCount(text) = n

\* C24: in summary mode, for a record set of n items and the record type's
\* cap c (20 transactions, 15 categories, 10 budgets), exactly min(n, c)
\* records are rendered, the header reports n, and a "... and N more" line is
\* present exactly when n > c, with N = n - c, so that rendered + N = n.  (An
\* empty record set is answered by formatArrayResult and reaches none of the
\* three formatters.)
C24_DisplayCap ==
    /\ \A call \in SummaryCalls(FormatArrayResultName) :
           Len(transactions) > 0 => Capped(formatted[call], Len(transactions), 20)
    /\ \A call \in SummaryCalls(FormatCategoriesName) :
           Len(categories) > 0 => Capped(formatted[call], Len(categories), 15)
    /\ \A call \in SummaryCalls(FormatBudgetsName) :
           Len(budgets) > 0 => Capped(formatted[call], Len(budgets), 10)

\* more categories than the cap have been listed in summary mode
C24_Witness ==
    /\ Len(categories) > 15
    /\ SummaryCalls(FormatCategoriesName) # {}

----------------------------------------------------------------------------
(* The arguments forwarded for a transaction tool                          *)

\* the tool is one for which adaptArguments builds a transaction filter
ForwardsTransactionFilter ==
    /\ adapted
    /\ toolCall.toolName \notin noParamMethods
    /\ ~includes(toolCall.toolName, <<"B","y","I","d">>)
    /\ ~includes(toolCall.toolName, <<"H","i","s","t","o","r","y">>)
    /\ ~includes(toolCall.toolName, <<"N","e","t","W","o","r","t","h">>)
    /\ \/ includes(toolCall.toolName, <<"T","r","a","n","s","a","c","t","i","o","n","s">>)
       \/ includes(toolCall.toolName, <<"t","r","a","n","s","a","c","t","i","o","n","s","_","g","e","t">>)

\* the search text of the caller, empty when there is none
SearchText == IF has(toolCall.args, "search") THEN toolCall.args.search ELSE <<>>

\* the parsed search text supplies a limit
SearchSuppliesLimit ==
    /\ SearchText # <<>>
    /\ has(MonarchMcpServer_parseNaturalLanguageQuery(SearchText, clock), "limit")

\* the search text contains one of the time phrases
SearchHasTimePhrase ==
    \E phrase \in {ThisMonth, LastMonth, ThisWeek} : includes(toLowerCase(SearchText), phrase)

\* the 30 days that end on the day d
LastThirtyDays(filter, d) ==
    /\ filter.startDate = CalendarDate(AddDays(d, -30))
    /\ filter.endDate = CalendarDate(d)

\* C25: for every call of a transaction tool routed through adaptArguments,
\* the argument object forwarded to the SDK has a limit that is at most 100
\* and equals 25 when neither the caller nor the parsed search text supplied
\* one, and has a start/end date range of the last 30 days (ending on the
\* current date of the clock, in UTC) when the caller supplied neither
\* startDate nor endDate and the search text contains no time phrase.
C25_TransactionArguments ==
    ForwardsTransactionFilter =>
        LET filter == sdkArguments[1]
        IN  /\ Len(sdkArguments) = 1
            /\ has(filter, "limit")
            /\ filter.limit <= 100
            /\ (~has(toolCall.args, "limit") /\ ~SearchSuppliesLimit) => filter.limit = 25
            /\ (/\ ~has(toolCall.args, "startDate")
                /\ ~has(toolCall.args, "endDate")
                /\ ~SearchHasTimePhrase)
                   => /\ has(filter, "startDate") /\ has(filter, "endDate")
                      /\ LastThirtyDays(filter, AddDays(Today, clock.nowShift))

\* a call with a search text only, without quantity or time phrase, has been
\* given the default limit and the default range
C25_Witness ==
    /\ ForwardsTransactionFilter
    /\ DOMAIN toolCall.args = {"search"}
    /\ SearchText = <<"c","o","f","f","e","e">>
    /\ sdkArguments[1].limit = 25
    /\ has(sdkArguments[1], "startDate")

----------------------------------------------------------------------------
(* The session: what the log of SDK calls and the answers show             *)

\* the entries of the log that call a data method or discover the tools
DataCalls ==
    {i \in DOMAIN sdkLog :
        /\ sdkLog[i].event = "invoke"
        /\ sdkLog[i].from \in {"tools/list", "callDynamicMethod"}
        /\ sdkLog[i].method # <<"l","o","g","i","n">>}

\* the entries that call the SDK's login method
LoginCalls == {i \in DOMAIN sdkLog : sdkLog[i].event = "invoke" /\ sdkLog[i].method = <<"l","o","g","i","n">>}

\* the entries at which a login made by ensureAuthenticated returned
LoginsDone ==
    {i \in DOMAIN sdkLog :
        /\ sdkLog[i].event = "ok"
        /\ sdkLog[i].method = <<"l","o","g","i","n">>
        /\ sdkLog[i].from = "ensureAuthenticated"}

\* the handler of request r starts in this step
Starts(r) == requests[r].pc = "unsent" /\ requests'[r].pc # "unsent"

\* the entries the step adds to the log
Added == SubSeq(sdkLog', Len(sdkLog) + 1, Len(sdkLog'))

\* the step is a login attempt of request r: it calls login, or it finds the
\* credentials invalid and answers with that error
AttemptsLogin(r) ==
    \/ /\ requests'[r].pc = "login"
       /\ Added = <<[request |-> r, method |-> <<"l","o","g","i","n">>, event |-> "invoke",
                     from |-> "ensureAuthenticated"]>>
    \/ /\ ~configValid
       /\ requests'[r].pc = "answered"
       /\ "InvalidRequest" \in {requests'[r].answer.code, requests'[r].answer.cause}
       /\ Added = <<>>

\* C26: no SDK data method (a fetch, or the tool discovery for the tools
\* list) is invoked for a request unless a login call has completed
\* successfully before it; a request handled while unauthenticated always
\* attempts login first (validating the credentials is the first part of the
\* attempt).
C26_AuthenticationGate ==
    /\ [](\A i \in DataCalls : \E j \in LoginsDone : j < i)
    /\ [][\A r \in 1..MaxRequests : (Starts(r) /\ ~isAuthenticated) => AttemptsLogin(r)]_vars

\* a data method has been called for a request that had to log in first
C26_Witness ==
    \E i \in DataCalls : \E j \in LoginsDone : j < i /\ sdkLog[j].request = sdkLog[i].request

\* the entries at which a login threw
LoginsFailed ==
    {i \in DOMAIN sdkLog : sdkLog[i].event = "fail" /\ sdkLog[i].method = <<"l","o","g","i","n">>}

Before(entries, j) == {i \in entries : i < j}

\* C27: for any interleaving of concurrently handled requests on one server
\* instance, the SDK login method is invoked at most once as long as it does
\* not fail (every further call of it comes after a failure of the one
\* before), and never again after the authenticated flag has become true.
C27_SingleLogin ==
    \A j \in LoginCalls :
        /\ Cardinality(Before(LoginCalls, j)) <= Cardinality(Before(LoginsFailed, j))
        /\ Before(LoginsDone, j) = {}

\* in this step the login of request r throws, or its credentials are found
\* invalid
LoginFails(r) ==
    \/ /\ requests[r].pc = "login"
       /\ Added = <<[request |-> r, method |-> <<"l","o","g","i","n">>, event |-> "fail",
                     from |-> "ensureAuthenticated"]>>
    \/ Starts(r) /\ ~isAuthenticated /\ ~configValid

\* request r has been answered with an error
EndedWithError(r) ==
    /\ requests'[r].pc = "answered"
    /\ requests'[r].answer.code \in {"InternalError", "InvalidRequest"}

\* the last thing that happened to the session is a failed login or a failed
\* validation
FailedLast ==
    \/ /\ sdkLog # <<>>
       /\ sdkLog[Len(sdkLog)] = [request |-> sdkLog[Len(sdkLog)].request, method |-> <<"l","o","g","i","n">>,
                                 event |-> "fail", from |-> "ensureAuthenticated"]
    \/ /\ sdkLog = <<>>
       /\ \E q \in 1..MaxRequests :
              "InvalidRequest" \in {requests[q].answer.code, requests[q].answer.cause}

\* C28: when login (or credential validation) fails, the authenticated flag
\* stays false, the current request ends with an error and invokes no SDK
\* data method, and the next request attempts login again; the flag never
\* goes from true back to false.
C28_FailedLogin ==
    [][/\ \A r \in 1..MaxRequests :
              LoginFails(r) =>
                  /\ ~isAuthenticated'
                  /\ EndedWithError(r)
                  /\ \A i \in DOMAIN sdkLog' :
                         sdkLog'[i].request = r => sdkLog'[i].method = <<"l","o","g","i","n">>
       /\ \A r \in 1..MaxRequests : (Starts(r) /\ FailedLast) => AttemptsLogin(r)
       /\ isAuthenticated => isAuthenticated']_vars

\* the tool names that are no special tool, no method of the SDK client and
\* no module_method of it
UnknownTools == {<<"a","c","c","o","u","n","t","s","_","n","o","p","e">>, <<"n","o","n","e","x","i","s","t","e","n","t","_","t","o","o","l">>, <<"u","n","k","n","o","w","n","t","o","o","l">>}

\* request r got past ensureAuthenticated
PassedAuthentication(r) ==
    /\ requests[r].pc \in {"call", "answered"}
    /\ requests[r].answer.cause \notin {"InvalidRequest", "InternalError"}

\* C29: an authenticated tools/call request whose tool name is neither a
\* special tool, nor a direct client method, nor a module_method of the SDK
\* client is answered to the caller with an error whose code is
\* MethodNotFound, and no SDK method is invoked for it.
C29_UnknownTool ==
    \A r \in 1..MaxRequests :
        (/\ requests[r].method = "tools/call"
         /\ requests[r].name \in UnknownTools
         /\ PassedAuthentication(r))
            => /\ requests[r].pc = "answered"
               /\ requests[r].answer.code = "MethodNotFound"
               /\ \A i \in DOMAIN sdkLog :
                      sdkLog[i].request = r => sdkLog[i].from = "ensureAuthenticated"

----------------------------------------------------------------------------
(* The caller's object after the call                                      *)

\* C30: parse leaves the caller's base filter object unchanged,
\* adaptArguments leaves the caller's argument object unchanged, and
\* formatTransactions leaves the order and content of the caller's record
\* list unchanged even when it sorts for display.
C30_NoMutationOfInputs ==
    returned # 0 => heap[1] = handed.original

\* a list that was not in order has been sorted for display, and a filter
\* has been extended, in an object of their own
C30_Witness ==
    /\ returned # 0
    /\ returned # 1
    /\ heap[returned] # handed.original
    /\ handed.operation = FormatName

====
